---- MODULE Spec2Model ----
(***************************************************************************)
(* Uniform/varying and masking analysis of one shader layer:               *)
(* BackendLLVMWide::discoverVaryingAndMaskingOfLayer and the query API of  *)
(* src/liboslexec/backendllvm_wide.cpp.                                    *)
(*                                                                         *)
(* The layer's ops are the input.  The recursive lambda                    *)
(* discoverSymbolsBetween is modelled with an explicit stack of            *)
(* activation records (frames); one action walks one op, one action        *)
(* returns from a finished range, and one action models each pass that     *)
(* follows the walk.  A failed ASSERT ends the run in pc = "abort".        *)
(* Op indices, jump targets and depths are 0-based as in the source.       *)
(***************************************************************************)
EXTENDS Integers, Sequences, FiniteSets, TLC

VARIABLES
    ops,                            \* inst()->ops(): the layer's op stream
    ranges,                         \* top-level ranges still to be walked
    pc,                             \* position in discoverVaryingAndMaskingOfLayer
    assertFailed,                   \* which ASSERT ended the run ("" if none)
    frames,                         \* activations of discoverSymbolsBetween
    m_is_uniform_by_symbol,
    m_requires_masking_by_layer_and_op_index,
    symbolFeedForwardMap,
    usageInfoBySymbol,
    symbolsCurrentBlockDependsOn,
    loopControlFlowSymbolStack,
    symbolsWrittenToByGetAttribute,
    nextMaskId,
    trace,                          \* what the walk printed: one entry per op walked
    m_generated_loops_condition_stack,
    calls                           \* the calls of the loop-condition stack API that returned

vars == << ops, ranges, pc, assertFailed, frames, m_is_uniform_by_symbol,
           m_requires_masking_by_layer_and_op_index, symbolFeedForwardMap,
           usageInfoBySymbol, symbolsCurrentBlockDependsOn,
           loopControlFlowSymbolStack, symbolsWrittenToByGetAttribute,
           nextMaskId, trace, m_generated_loops_condition_stack, calls >>

\* the state of code generation that the analysis of a layer leaves alone
codegenVars == << m_generated_loops_condition_stack, calls >>

----------------------------------------------------------------------------
(* Symbols of the layer.  A symbol is identified by its name.              *)

\* the fields of a Symbol the analysis looks at
Sym(type, isConnected, isConnectedDown, isEverRead, isRendererOutput) ==
    [ symtype |-> type, connected |-> isConnected, connected_down |-> isConnectedDown,
      everread |-> isEverRead, renderer_output |-> isRendererOutput,
      is_structure |-> FALSE ]

SymTab ==
    [ P  |-> Sym("Global",      FALSE, FALSE, TRUE,  FALSE),
      Ci |-> Sym("Global",      FALSE, FALSE, TRUE,  FALSE),
      q  |-> Sym("Param",       FALSE, FALSE, TRUE,  FALSE),
      k  |-> Sym("Param",       TRUE,  FALSE, TRUE,  FALSE),
      o  |-> Sym("OutputParam", FALSE, TRUE,  FALSE, FALSE),
      o2 |-> Sym("OutputParam", FALSE, FALSE, FALSE, FALSE),
      x  |-> Sym("Local",       FALSE, FALSE, TRUE,  FALSE),
      y  |-> Sym("Local",       FALSE, FALSE, TRUE,  FALSE),
      c  |-> Sym("Local",       FALSE, FALSE, TRUE,  FALSE) ]

Symbols == DOMAIN SymTab

symtype(s) == SymTab[s].symtype

\* FOREACH_PARAM: the parameters the instance declares, in declaration order
Params == << "q", "k", "o", "o2" >>

fields ==
    << "renderstate", "tracedata", "objdata", "shadingcontext", "renderer",
       "Ci", "raytype", "pad0", "pad1", "pad2",
       "P", "dPdz", "I", "N", "Ng", "u", "v", "dPdu", "dPdv", "time", "dtime",
       "dPdtime", "Ps", "object2common", "shader2common", "surfacearea",
       "flipHandedness", "backfacing" >>

field_is_uniform == [ i \in 1..Len(fields) |-> i <= 10 ]

IsShaderGlobalUniformByName(name) ==
    IF \E i \in 1..Len(fields) : fields[i] = name
    THEN field_is_uniform[CHOOSE i \in 1..Len(fields) :
                              /\ fields[i] = name
                              /\ \A j \in 1..(i-1) : fields[j] # name]
    ELSE FALSE

----------------------------------------------------------------------------
(* Opcode accessors.                                                       *)

NoJump == << -1, -1, -1, -1 >>

Op(i) == ops[i + 1]

RECURSIVE ArgSyms(_, _)
\* the symbols of the args of `args` selected by flag ("read" or "write"), in arg order
ArgSyms(args, flag) ==
    IF args = << >> THEN << >>
    ELSE LET a == Head(args)
             hit == IF flag = "read" THEN a.read ELSE a.write
         IN  (IF hit THEN << a.sym >> ELSE << >>) \o ArgSyms(Tail(args), flag)

symbolsReadByOp(opcode) == ArgSyms(opcode.args, "read")

symbolsWrittenByOp(opcode) == ArgSyms(opcode.args, "write")

SeqToSet(s) == { s[i] : i \in 1..Len(s) }

\* Opcode::farthest_jump: the last valid jump target, -1 for a straight-line op
farthest_jump(opcode) ==
    IF \E j \in 1..4 : opcode.jump[j] >= 0
    THEN opcode.jump[CHOOSE j \in 1..4 :
                         /\ opcode.jump[j] >= 0
                         /\ \A h \in (j+1)..4 : opcode.jump[h] < 0]
    ELSE -1

IsLoopOp(opcode) == opcode.opname \in {"for", "while", "dowhile"}

----------------------------------------------------------------------------
(* The layers analysed: op streams built the way the compiler front end    *)
(* emits them, control ops followed by their blocks, jump targets absolute.*)

Arg(s, isRead, isWrite) == [ sym |-> s, read |-> isRead, write |-> isWrite ]

Opcode(name, arguments, jumps) == [ opname |-> name, args |-> arguments, jump |-> jumps ]

Assign(w, r) == Opcode("assign", << Arg(w, FALSE, TRUE), Arg(r, TRUE, FALSE) >>, NoJump)

Store(w) == Opcode("assign", << Arg(w, FALSE, TRUE) >>, NoJump)

Use(r) == Opcode("printf", << Arg(r, TRUE, FALSE) >>, NoJump)

Incr(w) == Opcode("add", << Arg(w, TRUE, TRUE) >>, NoJump)

GetAttribute(w) == Opcode("getattribute", << Arg(w, FALSE, TRUE) >>, NoJump)

\* a getattribute op that reads r (the attribute asked for) and writes w
GetAttributeOf(w, r) ==
    Opcode("getattribute", << Arg(w, FALSE, TRUE), Arg(r, TRUE, FALSE) >>, NoJump)

Break == Opcode("break", << >>, NoJump)

\* the ops of a block moved to start at op index `by`
ShiftJump(target, by) == IF target >= 0 THEN target + by ELSE target

RECURSIVE Shift(_, _)
Shift(block, by) ==
    IF block = << >> THEN << >>
    ELSE << [ Head(block) EXCEPT !.jump = << ShiftJump(@[1], by), ShiftJump(@[2], by),
                                             ShiftJump(@[3], by), ShiftJump(@[4], by) >> ] >>
         \o Shift(Tail(block), by)

IfStmt(cond, thenBlock, elseBlock) ==
    << Opcode("if", << Arg(cond, TRUE, FALSE) >>,
              << 1 + Len(thenBlock), 1 + Len(thenBlock) + Len(elseBlock), -1, -1 >>) >>
    \o Shift(thenBlock, 1) \o Shift(elseBlock, 1 + Len(thenBlock))

LoopStmt(name, cond, initBlock, condBlock, bodyBlock, stepBlock) ==
    LET j0 == 1 + Len(initBlock)
        j1 == j0 + Len(condBlock)
        j2 == j1 + Len(bodyBlock)
        j3 == j2 + Len(stepBlock)
    IN  << Opcode(name, << Arg(cond, TRUE, FALSE) >>, << j0, j1, j2, j3 >>) >>
        \o Shift(initBlock, 1) \o Shift(condBlock, j0)
        \o Shift(bodyBlock, j1) \o Shift(stepBlock, j2)

CallStmt(bodyBlock) ==
    << Opcode("functioncall", << >>, << 1 + Len(bodyBlock), -1, -1, -1 >>) >>
    \o Shift(bodyBlock, 1)

\* the ways to give k consecutive blocks exactly m ops in all
Splits(k, m) ==
    { sp \in [ 1..k -> 0..m ] :
        sp[1] + (IF k > 1 THEN sp[2] ELSE 0) + (IF k > 2 THEN sp[3] ELSE 0)
              + (IF k > 3 THEN sp[4] ELSE 0) = m }

\* Block tables: tab[inLoop][n + 1] is the set of blocks of exactly n ops over the
\* alphabet al = [simple: straight-line ops, ifs: condition symbols of if ops,
\* fors: condition symbols of for loops (four blocks), whiles: condition symbols
\* of while loops (condition and body blocks), calls: whether function calls
\* occur], nested at most d deep; a break occurs only inside a loop.  `lower` is
\* the table for depth d - 1.

\* the statements of exactly n ops, one op or a control op and its blocks, as the
\* set of their kinds: each member holds the statements of one control op with one
\* division of the n - 1 ops among its blocks
StatementKinds(n, lower, al, inLoop) ==
    (IF n = 1 THEN { { << s >> : s \in al.simple \cup (IF inLoop THEN { Break } ELSE {}) } }
     ELSE {})
    \cup
    (IF lower = << >> THEN {}
     ELSE { { IfStmt(cond, t, e) :
                cond \in al.ifs,
                t \in lower[inLoop][sp[1] + 1],
                e \in lower[inLoop][sp[2] + 1] } :
              sp \in Splits(2, n - 1) }
          \cup
          { { LoopStmt("for", cond, ini, cnd, body, step) :
                cond \in al.fors,
                ini  \in lower[inLoop][sp[1] + 1],
                cnd  \in lower[TRUE][sp[2] + 1],
                body \in lower[TRUE][sp[3] + 1],
                step \in lower[TRUE][sp[4] + 1] } :
              sp \in Splits(4, n - 1) }
          \cup
          { { LoopStmt("while", cond, << >>, cnd, body, << >>) :
                cond \in al.whiles,
                cnd  \in lower[TRUE][sp[1] + 1],
                body \in lower[TRUE][sp[2] + 1] } :
              sp \in Splits(2, n - 1) }
          \cup
          (IF ~al.calls THEN {}
           ELSE { { CallStmt(body) : body \in lower[inLoop][n] } }))

Statements(n, lower, al, inLoop) == UNION StatementKinds(n, lower, al, inLoop)

RECURSIVE FillBlocks(_, _, _, _, _)
\* tab extended with the blocks of n, n + 1, ..., maxLen ops
\* (a table is bound by a quantifier before it is used, so that it is built once)
FillBlocks(tab, maxLen, lower, al, inLoop) ==
    IF Len(tab) > maxLen THEN tab
    ELSE LET n == Len(tab)
         IN  CHOOSE full \in
                 { FillBlocks(longer, maxLen, lower, al, inLoop) :
                     longer \in
                       { Append(tab,
                           UNION { { first \o Shift(rest, h) :
                                       first \in Statements(h, lower, al, inLoop),
                                       rest \in tab[n - h + 1] } : h \in 1..n }) } } : TRUE

RECURSIVE BlockTable(_, _, _)
BlockTable(maxLen, d, al) ==
    IF d < 0 THEN << >>
    ELSE CHOOSE table \in
             { [ inLoop \in BOOLEAN |->
                   FillBlocks(<< { << >> } >>, maxLen, lower, al, inLoop) ] :
                 lower \in { BlockTable(maxLen, d - 1, al) } } : TRUE

\* ops is a layer of at most n ops over the alphabet al, nested as deep as n ops
\* allow: empty, or a statement followed by a shorter layer
IsLayer(n, al) ==
    \E tab \in { BlockTable(n - 1, n - 1, al) } :
        \E h \in 0..n, m \in 0..n :
            /\ h + m <= n
            /\ (h = 0) => (m = 0)
            /\ \E kind \in (IF h = 0 THEN { { << >> } } ELSE StatementKinds(h, tab, al, FALSE)) :
                   \E first \in kind, rest \in tab[FALSE][m + 1] :
                       ops = first \o Shift(rest, h)

----------------------------------------------------------------------------
(* ensureWritesAtLowerDepthAreMasked                                       *)

NewUsageInfo == [last_depth |-> 0, last_maskId |-> 0, potentially_unmasked_ops |-> << >>]

\* usageInfoBySymbol[sym] of std::unordered_map: a missing entry is created
UsageOf(usage, sym) == IF sym \in DOMAIN usage THEN usage[sym] ELSE NewUsageInfo

PutUsage(usage, sym, info) ==
    [ s \in DOMAIN usage \cup {sym} |-> IF s = sym THEN info ELSE usage[s] ]

\* WriteNeedsMask letting the writes of uniform globals go unmasked
WriteNeedsMask_VaryingOnly(usage, sym, blockDepth, maskId) ==
    /\ sym \in DOMAIN usage
    /\ usage[sym].last_depth > blockDepth
    /\ usage[sym].last_maskId # maskId
    /\ ~(symtype(sym) = "Global" /\ IsShaderGlobalUniformByName(sym))

\* the test that guards the body of ensureWritesAtLowerDepthAreMasked
WriteNeedsMask(usage, sym, blockDepth, maskId) ==
    /\ sym \in DOMAIN usage
    /\ usage[sym].last_depth > blockDepth
    /\ usage[sym].last_maskId # maskId

\* IsDeeperUsage with >= for >
IsDeeperUsage_OrSame(usage_first, blockDepth) == usage_first >= blockDepth

\* "Only mark deeper usages as requiring masking"
IsDeeperUsage(usage_first, blockDepth) == usage_first > blockDepth

RECURSIVE RemainingOps(_, _)
RemainingOps(pending, blockDepth) ==
    IF pending = << >> THEN << >>
    ELSE (IF IsDeeperUsage(Head(pending)[1], blockDepth) THEN << >> ELSE << Head(pending) >>)
         \o RemainingOps(Tail(pending), blockDepth)

MaskedOps(pending, blockDepth) ==
    { pending[i][2] : i \in { j \in 1..Len(pending) : IsDeeperUsage(pending[j][1], blockDepth) } }

\* ensureWritesAtLowerDepthAreMasked testing the mask id alone, not the depth
ensureWritesAtLowerDepthAreMasked_MaskOnly(st, symbolToCheck, blockDepth, maskId) ==
    IF \/ ~st.ok
       \/ symbolToCheck \notin DOMAIN st.usage
       \/ st.usage[symbolToCheck].last_maskId = maskId
    THEN st
    ELSE LET info == st.usage[symbolToCheck]
             pending == info.potentially_unmasked_ops
         IN  IF pending = << >>
             THEN [st EXCEPT !.ok = FALSE]
             ELSE [ usage   |-> PutUsage(st.usage, symbolToCheck,
                                  [info EXCEPT !.potentially_unmasked_ops = << >>,
                                               !.last_depth = blockDepth]),
                    masking |-> [ i \in DOMAIN st.masking |->
                                    IF \E n \in 1..Len(pending) : pending[n][2] = i - 1
                                    THEN TRUE ELSE st.masking[i] ],
                    ok      |-> TRUE ]

\* st = [usage, masking, ok]; ok turns FALSE when the ASSERT fails
ensureWritesAtLowerDepthAreMasked(st, symbolToCheck, blockDepth, maskId) ==
    IF ~st.ok \/ ~WriteNeedsMask(st.usage, symbolToCheck, blockDepth, maskId)
    THEN st
    ELSE LET info == st.usage[symbolToCheck]
         IN  IF info.potentially_unmasked_ops = << >>
             THEN [st EXCEPT !.ok = FALSE]
             ELSE [ usage   |-> PutUsage(st.usage, symbolToCheck,
                                  [info EXCEPT
                                     !.potentially_unmasked_ops =
                                         RemainingOps(info.potentially_unmasked_ops, blockDepth),
                                     !.last_depth = blockDepth]),
                    masking |-> [ i \in DOMAIN st.masking |->
                                    IF (i - 1) \in MaskedOps(info.potentially_unmasked_ops, blockDepth)
                                    THEN TRUE ELSE st.masking[i] ],
                    ok      |-> TRUE ]

RECURSIVE EnsureReads(_, _, _, _)
\* the calls of ensureWritesAtLowerDepthAreMasked in the loop over symbolsReadByOp
EnsureReads(st, reads, blockDepth, maskId) ==
    IF reads = << >> THEN st
    ELSE EnsureReads(ensureWritesAtLowerDepthAreMasked(st, Head(reads), blockDepth, maskId),
                     Tail(reads), blockDepth, maskId)

RECURSIVE RecordWrites(_, _, _, _, _)
\* the loop over symbolsWrittenByOp that updates usageInfoBySymbol
RecordWrites(usage, writes, writeBlockDepth, writeMaskId, opIndex) ==
    IF writes = << >> THEN usage
    ELSE LET info == UsageOf(usage, Head(writes))
         IN  RecordWrites(
                 PutUsage(usage, Head(writes),
                     [ last_depth |-> writeBlockDepth,
                       last_maskId |-> writeMaskId,
                       potentially_unmasked_ops |->
                           Append(info.potentially_unmasked_ops, << writeBlockDepth, opIndex >>) ]),
                 Tail(writes), writeBlockDepth, writeMaskId, opIndex)

----------------------------------------------------------------------------
(* Feed-forward edges.  The multimap is kept as the set of its pairs:      *)
(* a duplicate pair changes nothing the analysis computes.                 *)

\* "Skip self dependencies"
IsSelfDependency(symbolWrittenTo, symbolReadFrom) == symbolWrittenTo = symbolReadFrom

\* pairs inserted by the loops over symbolsReadByOp x symbolsWrittenByOp
DataEdges(reads, writes) ==
    { << r, w >> : r \in SeqToSet(reads), w \in SeqToSet(writes) } \
        { e \in Symbols \X Symbols : IsSelfDependency(e[2], e[1]) }

\* ControlEdges with no pair inserted
ControlEdges_None(deps, writes) == {}

\* pairs inserted by the loop over symbolsCurrentBlockDependsOn
ControlEdges(deps, writes) ==
    { << d, w >> : d \in SeqToSet(deps), w \in SeqToSet(writes) } \
        { e \in Symbols \X Symbols : IsSelfDependency(e[2], e[1]) }

\* std::find(symbolsCurrentBlockDependsOn.begin(), end(), loopCondition)
FindCondition(deps, loopCondition) ==
    IF \E i \in 1..Len(deps) : deps[i] = loopCondition
    THEN CHOOSE i \in 1..Len(deps) :
             /\ deps[i] = loopCondition
             /\ \A j \in 1..(i-1) : deps[j] # loopCondition
    ELSE 0

\* BreakEdges with no edge inserted
BreakEdges_None(deps, loopCondition) == {}

\* pairs inserted by the while(++conditionIter != end()) loop of a break
BreakEdges(deps, loopCondition) ==
    { << deps[j], loopCondition >> : j \in (FindCondition(deps, loopCondition) + 1)..Len(deps) }

\* "update the usageInfo for the loop conditional to mark it as being written to"
BreakUsage(usage, loopCondition, writeBlockDepth, writeMaskId, opIndex) ==
    LET info == UsageOf(usage, loopCondition)
        deeper == writeBlockDepth > info.last_depth
    IN  PutUsage(usage, loopCondition,
            [ last_depth  |-> IF deeper THEN writeBlockDepth ELSE info.last_depth,
              last_maskId |-> IF deeper THEN writeMaskId ELSE info.last_maskId,
              potentially_unmasked_ops |->
                  Append(info.potentially_unmasked_ops, << writeBlockDepth, opIndex >>) ])

\* "Initially let all symbols be uniform"
Discover(table, syms) ==
    [ s \in DOMAIN table \cup syms |-> IF s \in syms THEN TRUE ELSE table[s] ]

----------------------------------------------------------------------------
(* discoverSymbolsBetween                                                  *)

mainMask == 0

Frame(beginop, endop, blockDepth, writeBlockDepth, maskId, writeMaskId) ==
    [ opIndex |-> beginop, endop |-> endop,
      blockDepth |-> blockDepth, writeBlockDepth |-> writeBlockDepth,
      maskId |-> maskId, writeMaskId |-> writeMaskId,
      stage |-> "op", bodyMask |-> -1 ]

\* a top-level call discoverSymbolsBetween(b, e, 0, 0, mainMask, mainMask)
TopFrame(range) == Frame(range[1], range[2], 0, 0, mainMask, mainMask)

Top == frames[Len(frames)]

Caller == frames[Len(frames) - 1]

\* the frames with the running one replaced by f and callee pushed on it
Call(f, callee) == [frames EXCEPT ![Len(frames)] = f] \o << callee >>

\* Advance leaving opIndex where it is
Advance_Stay(f) == [f EXCEPT !.stage = "op", !.bodyMask = -1]

\* "If the op we coded jumps around, skip past its recursive block executions"
Advance(f) ==
    LET next == farthest_jump(Op(f.opIndex))
    IN  [f EXCEPT !.opIndex = IF next >= 0 THEN next ELSE f.opIndex + 1,
                  !.stage = "op", !.bodyMask = -1]

Abort(which) ==
    /\ pc' = "abort"
    /\ assertFailed' = which
    /\ UNCHANGED << codegenVars, ops, ranges, frames, m_is_uniform_by_symbol,
                    m_requires_masking_by_layer_and_op_index, symbolFeedForwardMap,
                    usageInfoBySymbol, symbolsCurrentBlockDependsOn,
                    loopControlFlowSymbolStack, symbolsWrittenToByGetAttribute,
                    nextMaskId, trace >>

\* BranchBlock walked at the depth of the if itself
BranchBlock_SameDepth(f, beginop, endop) ==
    Frame(beginop, endop, f.blockDepth, f.blockDepth, nextMaskId, nextMaskId)

\* the call that walks the then block or the else block of an if: one level
\* deeper, under a mask id of its own
BranchBlock(f, beginop, endop) ==
    Frame(beginop, endop, f.blockDepth + 1, f.blockDepth + 1, nextMaskId, nextMaskId)

\* CallBlock walked like a block of an if: one level deeper, under another mask id
CallBlock_Deeper(f, opcode) ==
    Frame(f.opIndex + 1, opcode.jump[1], f.blockDepth + 1, f.writeBlockDepth + 1,
          nextMaskId, nextMaskId)

\* the call that walks the body of a functioncall: "Function call itself operates
\* on the same symbol dependencies as the current block"
CallBlock(f, opcode) ==
    Frame(f.opIndex + 1, opcode.jump[1], f.blockDepth, f.writeBlockDepth,
          f.maskId, f.writeMaskId)

\* InitBlock walked like the body: one level deeper
InitBlock_Deeper(f, opcode) ==
    Frame(f.opIndex + 1, opcode.jump[1], f.blockDepth + 1, f.blockDepth + 1,
          f.maskId, f.maskId)

\* the call that walks a loop's init block: "init block doesn't depend on the for
\* loops conditions and should be exempt"
InitBlock(f, opcode) ==
    Frame(f.opIndex + 1, opcode.jump[1], f.blockDepth, f.blockDepth, f.maskId, f.maskId)

TraceEntry(f) ==
    [ op |-> f.opIndex, endop |-> f.endop, blockDepth |-> f.blockDepth, maskId |-> f.maskId,
      writeBlockDepth |-> f.writeBlockDepth, writeMaskId |-> f.writeMaskId,
      deps |-> symbolsCurrentBlockDependsOn, loops |-> loopControlFlowSymbolStack ]

\* one iteration of the for loop over [beginop, endop), up to the recursive call
\* if the op has one
WalkOp ==
    /\ pc = "walk"
    /\ frames # << >>
    /\ Top.stage = "op"
    /\ Top.opIndex < Top.endop
    /\ LET f      == Top
           i      == f.opIndex
           opcode == Op(i)
           reads  == symbolsReadByOp(opcode)
           writes == symbolsWrittenByOp(opcode)
           st     == EnsureReads([ usage |-> usageInfoBySymbol,
                                   masking |-> m_requires_masking_by_layer_and_op_index,
                                   ok |-> TRUE ],
                                 reads, f.blockDepth, f.maskId)
           usage2 == RecordWrites(st.usage, writes, f.writeBlockDepth, f.writeMaskId, i)
           edges2 == symbolFeedForwardMap \cup DataEdges(reads, writes)
                        \cup ControlEdges(symbolsCurrentBlockDependsOn, writes)
           loopCondition == loopControlFlowSymbolStack[Len(loopControlFlowSymbolStack)]
           Common == /\ m_is_uniform_by_symbol' =
                            Discover(m_is_uniform_by_symbol,
                                     { opcode.args[a].sym : a \in 1..Len(opcode.args) })
                     /\ m_requires_masking_by_layer_and_op_index' = st.masking
                     /\ trace' = Append(trace, TraceEntry(f))
                     /\ pc' = "walk"
                     /\ UNCHANGED << codegenVars, ops, ranges, assertFailed >>
       IN  IF ~st.ok THEN Abort("potentially_unmasked_ops.empty() == false")
           ELSE IF opcode.jump[1] >= 0 THEN
               IF opcode.opname = "if" THEN
                   IF Len(reads) # 1 THEN Abort("symbolsRead == 1")
                   ELSE /\ Common
                        /\ symbolsCurrentBlockDependsOn' =
                               Append(symbolsCurrentBlockDependsOn, reads[1])
                        /\ nextMaskId' = nextMaskId + 1
                        /\ frames' = Call([f EXCEPT !.stage = "then"],
                                          BranchBlock(f, i + 1, opcode.jump[1]))
                        /\ usageInfoBySymbol' = usage2
                        /\ symbolFeedForwardMap' = edges2
                        /\ UNCHANGED << loopControlFlowSymbolStack,
                                        symbolsWrittenToByGetAttribute >>
               ELSE IF IsLoopOp(opcode) THEN
                   /\ Common
                   /\ frames' = Call([f EXCEPT !.stage = "init"], InitBlock(f, opcode))
                   /\ usageInfoBySymbol' = usage2
                   /\ symbolFeedForwardMap' = edges2
                   /\ UNCHANGED << symbolsCurrentBlockDependsOn, loopControlFlowSymbolStack,
                                   symbolsWrittenToByGetAttribute, nextMaskId >>
               ELSE IF opcode.opname = "functioncall" THEN
                   /\ Common
                   /\ frames' = Call([f EXCEPT !.stage = "call"], CallBlock(f, opcode))
                   /\ usageInfoBySymbol' = usage2
                   /\ symbolFeedForwardMap' = edges2
                   /\ UNCHANGED << symbolsCurrentBlockDependsOn, loopControlFlowSymbolStack,
                                   symbolsWrittenToByGetAttribute, nextMaskId >>
               ELSE Abort("Unhandled OSL instruction which contains jumps")
           ELSE IF opcode.opname = "break" /\ loopControlFlowSymbolStack = << >>
                THEN Abort("false == loopControlFlowSymbolStack.empty()")
           ELSE IF opcode.opname = "break"
                   /\ FindCondition(symbolsCurrentBlockDependsOn, loopCondition) = 0
                THEN Abort("conditionIter != symbolsCurrentBlockDependsOn.end()")
           ELSE /\ Common
                /\ frames' = [frames EXCEPT ![Len(frames)] = Advance(f)]
                /\ symbolFeedForwardMap' =
                       IF opcode.opname = "break"
                       THEN edges2 \cup BreakEdges(symbolsCurrentBlockDependsOn, loopCondition)
                       ELSE edges2
                /\ usageInfoBySymbol' =
                       IF opcode.opname = "break"
                       THEN BreakUsage(usage2, loopCondition,
                                       f.writeBlockDepth, f.writeMaskId, i)
                       ELSE usage2
                /\ symbolsWrittenToByGetAttribute' =
                       IF opcode.opname = "getattribute"
                       THEN symbolsWrittenToByGetAttribute \o writes
                       ELSE symbolsWrittenToByGetAttribute
                /\ UNCHANGED << symbolsCurrentBlockDependsOn, loopControlFlowSymbolStack,
                                nextMaskId >>

\* ConditionBlock walked like the init block: writes at the loop's own depth and mask
ConditionBlock_AsInit(f, opcode) ==
    Frame(opcode.jump[1], opcode.jump[2], f.blockDepth, f.blockDepth, f.maskId, f.maskId)

\* the call that walks a loop's condition block: "Processing condition like it was
\* a do/while", reads at the loop's depth, writes at the depth of body and step
ConditionBlock(f, opcode) ==
    Frame(opcode.jump[1], opcode.jump[2], f.blockDepth, f.blockDepth + 1, f.maskId, f.bodyMask)

\* popSymbolsCurentBlockDependsOn: "" when its ASSERTs hold, else the one that fails
PopFails(opcode) ==
    IF Len(symbolsReadByOp(opcode)) # 1 THEN "symbolsRead == 1"
    ELSE IF \/ symbolsCurrentBlockDependsOn = << >>
            \/ symbolsCurrentBlockDependsOn[Len(symbolsCurrentBlockDependsOn)]
                   # symbolsReadByOp(opcode)[1]
         THEN "symbolsCurrentBlockDependsOn.back() == symbolsReadByOp[0]"
         ELSE ""

\* PopBack removing nothing
PopBack_Keep(stack) == stack

\* pop_back()
PopBack(stack) == SubSeq(stack, 1, Len(stack) - 1)

\* the for loop over [beginop, endop) has ended: discoverSymbolsBetween returns to
\* the code after the call, which runs up to the next call or to the loop's ++opIndex
EndRange ==
    /\ pc = "walk"
    /\ frames # << >>
    /\ Top.stage = "op"
    /\ Top.opIndex >= Top.endop
    /\ IF Len(frames) = 1
       THEN \* a top-level call returns
            /\ frames' = IF ranges = << >> THEN << >> ELSE << TopFrame(Head(ranges)) >>
            /\ ranges' = IF ranges = << >> THEN << >> ELSE Tail(ranges)
            /\ pc' = IF ranges = << >> THEN "outputs" ELSE "walk"
            /\ UNCHANGED << codegenVars, ops, assertFailed, m_is_uniform_by_symbol,
                            m_requires_masking_by_layer_and_op_index, symbolFeedForwardMap,
                            usageInfoBySymbol, symbolsCurrentBlockDependsOn,
                            loopControlFlowSymbolStack, symbolsWrittenToByGetAttribute,
                            nextMaskId, trace >>
       ELSE LET f       == Caller
                opcode  == Op(f.opIndex)
                reads   == symbolsReadByOp(opcode)
                back    == PopBack(frames)
                Resume(g) == [back EXCEPT ![Len(back)] = g]
                Enter(g, callee) == Resume(g) \o << callee >>
                depthForBodyAndStep == f.blockDepth + 1
                Same == UNCHANGED << codegenVars, ops, ranges, pc, assertFailed, m_is_uniform_by_symbol,
                                     symbolFeedForwardMap, symbolsWrittenToByGetAttribute,
                                     trace >>
            IN  IF f.stage = "then" THEN
                    /\ frames' = Enter([f EXCEPT !.stage = "else"],
                                       BranchBlock(f, opcode.jump[1], opcode.jump[2]))
                    /\ nextMaskId' = nextMaskId + 1
                    /\ Same
                    /\ UNCHANGED << m_requires_masking_by_layer_and_op_index,
                                    usageInfoBySymbol, symbolsCurrentBlockDependsOn,
                                    loopControlFlowSymbolStack >>
                ELSE IF f.stage = "else" THEN
                    IF PopFails(opcode) # "" THEN Abort(PopFails(opcode))
                    ELSE /\ frames' = Resume(Advance(f))
                         /\ symbolsCurrentBlockDependsOn' = PopBack(symbolsCurrentBlockDependsOn)
                         /\ Same
                         /\ UNCHANGED << m_requires_masking_by_layer_and_op_index,
                                         usageInfoBySymbol, loopControlFlowSymbolStack,
                                         nextMaskId >>
                ELSE IF f.stage = "init" THEN
                    IF Len(reads) # 1 THEN Abort("symbolsRead == 1")
                    ELSE /\ frames' = Enter([f EXCEPT !.stage = "body", !.bodyMask = nextMaskId],
                                            Frame(opcode.jump[2], opcode.jump[3],
                                                  depthForBodyAndStep, depthForBodyAndStep,
                                                  nextMaskId, nextMaskId))
                         /\ nextMaskId' = nextMaskId + 1
                         /\ symbolsCurrentBlockDependsOn' =
                                Append(symbolsCurrentBlockDependsOn, reads[1])
                         /\ loopControlFlowSymbolStack' =
                                Append(loopControlFlowSymbolStack, reads[1])
                         /\ Same
                         /\ UNCHANGED << m_requires_masking_by_layer_and_op_index,
                                         usageInfoBySymbol >>
                ELSE IF f.stage = "body" THEN
                    /\ frames' = Enter([f EXCEPT !.stage = "step"],
                                       Frame(opcode.jump[3], opcode.jump[4],
                                             depthForBodyAndStep, depthForBodyAndStep,
                                             f.bodyMask, f.bodyMask))
                    /\ Same
                    /\ UNCHANGED << m_requires_masking_by_layer_and_op_index,
                                    usageInfoBySymbol, symbolsCurrentBlockDependsOn,
                                    loopControlFlowSymbolStack, nextMaskId >>
                ELSE IF f.stage = "step" THEN
                    /\ frames' = Enter([f EXCEPT !.stage = "cond"], ConditionBlock(f, opcode))
                    /\ Same
                    /\ UNCHANGED << m_requires_masking_by_layer_and_op_index,
                                    usageInfoBySymbol, symbolsCurrentBlockDependsOn,
                                    loopControlFlowSymbolStack, nextMaskId >>
                ELSE IF f.stage = "cond" THEN
                    LET condition == opcode.args[1].sym
                        st == ensureWritesAtLowerDepthAreMasked(
                                  [ usage |-> usageInfoBySymbol,
                                    masking |-> m_requires_masking_by_layer_and_op_index,
                                    ok |-> TRUE ],
                                  condition, f.blockDepth, f.maskId)
                    IN  IF ~st.ok THEN Abort("potentially_unmasked_ops.empty() == false")
                        ELSE IF PopFails(opcode) # "" THEN Abort(PopFails(opcode))
                        ELSE IF \/ loopControlFlowSymbolStack = << >>
                                \/ loopControlFlowSymbolStack[Len(loopControlFlowSymbolStack)]
                                       # reads[1]
                             THEN Abort("loopControlFlowSymbolStack.back() == symbolsReadByOp[0]")
                        ELSE /\ frames' = Resume(Advance(f))
                             /\ usageInfoBySymbol' = st.usage
                             /\ m_requires_masking_by_layer_and_op_index' = st.masking
                             /\ symbolsCurrentBlockDependsOn' =
                                    PopBack(symbolsCurrentBlockDependsOn)
                             /\ loopControlFlowSymbolStack' = PopBack(loopControlFlowSymbolStack)
                             /\ Same
                             /\ UNCHANGED nextMaskId
                ELSE \* f.stage = "call"
                    /\ frames' = Resume(Advance(f))
                    /\ Same
                    /\ UNCHANGED << m_requires_masking_by_layer_and_op_index,
                                    usageInfoBySymbol, symbolsCurrentBlockDependsOn,
                                    loopControlFlowSymbolStack, nextMaskId >>

----------------------------------------------------------------------------
(* The passes of discoverVaryingAndMaskingOfLayer that follow the walk.    *)

\* "Skip structure placeholders", "Skip if it's never read and isn't connected"
IsSkippedParam(s) ==
    \/ SymTab[s].is_structure
    \/ /\ ~SymTab[s].everread
       /\ ~SymTab[s].connected_down
       /\ ~SymTab[s].connected
       /\ ~SymTab[s].renderer_output

\* IsCheckedOutputParam testing for SymTypeParam instead of SymTypeOutputParam
IsCheckedOutputParam_Param(s) == ~IsSkippedParam(s) /\ symtype(s) = "Param"

\* the output parameters whose writes the pass after the walk checks
IsCheckedOutputParam(s) == ~IsSkippedParam(s) /\ symtype(s) = "OutputParam"

CheckedOutputParams == SelectSeq(Params, IsCheckedOutputParam)

RECURSIVE EnsureOutputs(_, _)
EnsureOutputs(st, params) ==
    IF params = << >> THEN st
    ELSE EnsureOutputs(ensureWritesAtLowerDepthAreMasked(st, Head(params), 0, mainMask),
                       Tail(params))

\* FOREACH_PARAM ... ensureWritesAtLowerDepthAreMasked(&s, 0, mainMask)
OutputParamPass ==
    /\ pc = "outputs"
    /\ LET st == EnsureOutputs([ usage |-> usageInfoBySymbol,
                                 masking |-> m_requires_masking_by_layer_and_op_index,
                                 ok |-> TRUE ], CheckedOutputParams)
       IN  IF ~st.ok THEN Abort("potentially_unmasked_ops.empty() == false")
           ELSE /\ usageInfoBySymbol' = st.usage
                /\ m_requires_masking_by_layer_and_op_index' = st.masking
                /\ pc' = "seeds"
                /\ UNCHANGED << codegenVars, ops, ranges, assertFailed, frames, m_is_uniform_by_symbol,
                                symbolFeedForwardMap, symbolsCurrentBlockDependsOn,
                                loopControlFlowSymbolStack, symbolsWrittenToByGetAttribute,
                                nextMaskId, trace >>

\* m_is_uniform_by_symbol[sym] of std::unordered_map<.., bool>: a missing entry reads false
WasUniform(table, sym) == IF sym \in DOMAIN table THEN table[sym] ELSE FALSE

\* FedBy visiting the first pair of the range only
FedBy_First(sym, order) ==
    LET all == SelectSeq(order, LAMBDA w : << sym, w >> \in symbolFeedForwardMap)
    IN  IF all = << >> THEN << >> ELSE << Head(all) >>

\* iter->second over symbolFeedForwardMap.equal_range(sym), in the order the
\* container happens to keep them (the order of `order`)
FedBy(sym, order) ==
    SelectSeq(order, LAMBDA w : << sym, w >> \in symbolFeedForwardMap)

RECURSIVE recursivelyMarkNonUniform(_, _, _)
RECURSIVE MarkEach(_, _, _)
\* recursivelyMarkNonUniform storing the negation of what the table held
recursivelyMarkNonUniform_Toggle(table, nonUniformSymbol, order) ==
    LET previously_was_uniform == WasUniform(table, nonUniformSymbol)
        marked == [ s \in DOMAIN table \cup {nonUniformSymbol} |->
                      IF s = nonUniformSymbol THEN ~previously_was_uniform ELSE table[s] ]
    IN  IF previously_was_uniform
        THEN MarkEach(marked, FedBy(nonUniformSymbol, order), order)
        ELSE marked

recursivelyMarkNonUniform(table, nonUniformSymbol, order) ==
    LET previously_was_uniform == WasUniform(table, nonUniformSymbol)
        marked == [ s \in DOMAIN table \cup {nonUniformSymbol} |->
                      IF s = nonUniformSymbol THEN FALSE ELSE table[s] ]
    IN  IF previously_was_uniform
        THEN MarkEach(marked, FedBy(nonUniformSymbol, order), order)
        ELSE marked

MarkEach(table, syms, order) ==
    IF syms = << >> THEN table
    ELSE MarkEach(recursivelyMarkNonUniform(table, Head(syms), order), Tail(syms), order)

\* IsVaryingSource with every global taken for varying
IsVaryingSource_AnyGlobal(symbolReadFrom) ==
    symtype(symbolReadFrom) \in { "Global", "Param" }

\* the test of the scan over the keys of symbolFeedForwardMap
IsVaryingSource(symbolReadFrom) ==
    IF symtype(symbolReadFrom) = "Global"
    THEN ~IsShaderGlobalUniformByName(symbolReadFrom)
    ELSE symtype(symbolReadFrom) = "Param"

RECURSIVE Orders(_)
\* the orders in which an unordered container may keep the members of S
Orders(S) ==
    IF S = {} THEN { << >> }
    ELSE UNION { { << s >> \o rest : rest \in Orders(S \ {s}) } : s \in S }

FeedSymbols == { e[1] : e \in symbolFeedForwardMap } \cup { e[2] : e \in symbolFeedForwardMap }

\* the scan over the unique keys of symbolFeedForwardMap
SeedScan ==
    /\ pc = "seeds"
    /\ \E order \in Orders(FeedSymbols) :
           LET keys == SelectSeq(order, LAMBDA r : \E e \in symbolFeedForwardMap : e[1] = r)
               sources == SelectSeq(keys, IsVaryingSource)
           IN  m_is_uniform_by_symbol' = MarkEach(m_is_uniform_by_symbol, sources, order)
    /\ pc' = "markOutputs"
    /\ UNCHANGED << codegenVars, ops, ranges, assertFailed, frames,
                    m_requires_masking_by_layer_and_op_index, symbolFeedForwardMap,
                    usageInfoBySymbol, symbolsCurrentBlockDependsOn,
                    loopControlFlowSymbolStack, symbolsWrittenToByGetAttribute,
                    nextMaskId, trace >>

\* MarkGetAttribute marking nothing
MarkGetAttribute_Skipped ==
    /\ pc = "markGetAttribute"
    /\ pc' = "done"
    /\ UNCHANGED << codegenVars, ops, ranges, assertFailed, frames, m_is_uniform_by_symbol,
                    m_requires_masking_by_layer_and_op_index, symbolFeedForwardMap,
                    usageInfoBySymbol, symbolsCurrentBlockDependsOn,
                    loopControlFlowSymbolStack, symbolsWrittenToByGetAttribute,
                    nextMaskId, trace >>

\* MarkOutputParams testing for SymTypeParam instead of SymTypeOutputParam
MarkOutputParams_Param ==
    /\ pc = "markOutputs"
    /\ \E order \in Orders(FeedSymbols) :
           m_is_uniform_by_symbol' =
               MarkEach(m_is_uniform_by_symbol,
                        SelectSeq(Params, LAMBDA s : symtype(s) = "Param"), order)
    /\ pc' = "markGetAttribute"
    /\ UNCHANGED << codegenVars, ops, ranges, assertFailed, frames,
                    m_requires_masking_by_layer_and_op_index, symbolFeedForwardMap,
                    usageInfoBySymbol, symbolsCurrentBlockDependsOn,
                    loopControlFlowSymbolStack, symbolsWrittenToByGetAttribute,
                    nextMaskId, trace >>

\* "Mark all output parameters as varying"
MarkOutputParams ==
    /\ pc = "markOutputs"
    /\ \E order \in Orders(FeedSymbols) :
           m_is_uniform_by_symbol' =
               MarkEach(m_is_uniform_by_symbol,
                        SelectSeq(Params, LAMBDA s : symtype(s) = "OutputParam"), order)
    /\ pc' = "markGetAttribute"
    /\ UNCHANGED << codegenVars, ops, ranges, assertFailed, frames,
                    m_requires_masking_by_layer_and_op_index, symbolFeedForwardMap,
                    usageInfoBySymbol, symbolsCurrentBlockDependsOn,
                    loopControlFlowSymbolStack, symbolsWrittenToByGetAttribute,
                    nextMaskId, trace >>

\* the loop over symbolsWrittenToByGetAttribute
MarkGetAttribute ==
    /\ pc = "markGetAttribute"
    /\ \E order \in Orders(FeedSymbols) :
           m_is_uniform_by_symbol' =
               MarkEach(m_is_uniform_by_symbol, symbolsWrittenToByGetAttribute, order)
    /\ pc' = "done"
    /\ UNCHANGED << codegenVars, ops, ranges, assertFailed, frames,
                    m_requires_masking_by_layer_and_op_index, symbolFeedForwardMap,
                    usageInfoBySymbol, symbolsCurrentBlockDependsOn,
                    loopControlFlowSymbolStack, symbolsWrittenToByGetAttribute,
                    nextMaskId, trace >>

Next == WalkOp \/ EndRange \/ OutputParamPass \/ SeedScan \/ MarkOutputParams
            \/ MarkGetAttribute

----------------------------------------------------------------------------
(* The part of discoverVaryingAndMaskingOfLayer that computes the          *)
(* requires_masking table, as a function of the op stream: the walk and    *)
(* the pass over the output parameters, without the data they keep for the *)
(* uniform table alone (edges, symbolsCurrentBlockDependsOn, the table).   *)

\* st with the usage info, flags and ASSERT outcome of r
WithEnsured(st, r) == [st EXCEPT !.usage = r.usage, !.masking = r.masking, !.ok = r.ok]

Ensured(st) == [ usage |-> st.usage, masking |-> st.masking, ok |-> st.ok ]

RECURSIVE MaskRange(_, _, _, _, _, _, _, _)
\* discoverSymbolsBetween(beginop, endop, blockDepth, writeBlockDepth, maskId,
\* writeMaskId) over the op stream code, started in st = [usage, masking, ok,
\* nextMaskId, loops]
MaskRange(code, st, beginop, endop, blockDepth, writeBlockDepth, maskId, writeMaskId) ==
    IF ~st.ok \/ beginop >= endop THEN st
    ELSE LET opcode == code[beginop + 1]
             reads  == symbolsReadByOp(opcode)
             writes == symbolsWrittenByOp(opcode)
             read   == WithEnsured(st, EnsureReads(Ensured(st), reads, blockDepth, maskId))
             st1    == [read EXCEPT !.usage = RecordWrites(@, writes, writeBlockDepth,
                                                           writeMaskId, beginop)]
             thenSt == MaskRange(code, [st1 EXCEPT !.nextMaskId = @ + 1],
                                 beginop + 1, opcode.jump[1],
                                 blockDepth + 1, blockDepth + 1, st1.nextMaskId, st1.nextMaskId)
             elseSt == MaskRange(code, [thenSt EXCEPT !.nextMaskId = @ + 1],
                                 opcode.jump[1], opcode.jump[2],
                                 blockDepth + 1, blockDepth + 1,
                                 thenSt.nextMaskId, thenSt.nextMaskId)
             initSt == MaskRange(code, st1, beginop + 1, opcode.jump[1],
                                 blockDepth, blockDepth, maskId, maskId)
             maskIdForBodyAndStep == initSt.nextMaskId
             bodySt == MaskRange(code,
                                 [initSt EXCEPT !.nextMaskId = @ + 1,
                                                !.loops = Append(@, opcode.args[1].sym)],
                                 opcode.jump[2], opcode.jump[3],
                                 blockDepth + 1, blockDepth + 1,
                                 maskIdForBodyAndStep, maskIdForBodyAndStep)
             stepSt == MaskRange(code, bodySt, opcode.jump[3], opcode.jump[4],
                                 blockDepth + 1, blockDepth + 1,
                                 maskIdForBodyAndStep, maskIdForBodyAndStep)
             condSt == MaskRange(code, stepSt, opcode.jump[1], opcode.jump[2],
                                 blockDepth, blockDepth + 1, maskId, maskIdForBodyAndStep)
             loopSt == [ WithEnsured(condSt,
                             ensureWritesAtLowerDepthAreMasked(Ensured(condSt),
                                 opcode.args[1].sym, blockDepth, maskId))
                           EXCEPT !.loops = PopBack(@) ]
             callSt == MaskRange(code, st1, beginop + 1, opcode.jump[1],
                                 blockDepth, writeBlockDepth, maskId, writeMaskId)
             breakSt == [st1 EXCEPT !.usage =
                             BreakUsage(@, st1.loops[Len(st1.loops)],
                                        writeBlockDepth, writeMaskId, beginop)]
             after  == IF ~st1.ok THEN st1
                       ELSE IF opcode.opname = "if" THEN elseSt
                       ELSE IF IsLoopOp(opcode) THEN loopSt
                       ELSE IF opcode.opname = "functioncall" THEN callSt
                       ELSE IF opcode.opname = "break" THEN breakSt
                       ELSE st1
             next   == farthest_jump(opcode)
         IN  MaskRange(code, after, IF next >= 0 THEN next ELSE beginop + 1, endop,
                       blockDepth, writeBlockDepth, maskId, writeMaskId)

\* the walk of the whole op stream followed by the pass over the output
\* parameters: [masking, ok], ok FALSE when the ASSERT on the pending writes fails
MaskingOf(code) ==
    LET walked == MaskRange(code,
                      [ usage |-> << >>, masking |-> [ i \in 1..Len(code) |-> FALSE ],
                        ok |-> TRUE, nextMaskId |-> mainMask + 1, loops |-> << >> ],
                      0, Len(code), 0, 0, mainMask, mainMask)
        passed == EnsureOutputs(Ensured(walked), CheckedOutputParams)
    IN  [ masking |-> passed.masking, ok |-> passed.ok ]

----------------------------------------------------------------------------
(* The stack of varying loop conditions kept during code generation.       *)

MaxCalls == 5

\* what the analysis holds while the stack API is called: it is not running
analysisVars == << ops, ranges, frames, m_is_uniform_by_symbol,
                   m_requires_masking_by_layer_and_op_index, symbolFeedForwardMap,
                   usageInfoBySymbol, symbolsCurrentBlockDependsOn,
                   loopControlFlowSymbolStack, symbolsWrittenToByGetAttribute,
                   nextMaskId, trace >>

\* Symbol *: a loop's condition symbol, or nullptr for a loop that is not varying
Conditions == { "nullptr", "x", "c" }

\* Back returning the oldest entry
Back_Front(stack) == stack[1]

\* m_generated_loops_condition_stack.back()
Back(stack) == stack[Len(stack)]

\* a call that returned: its name, the Symbol * passed or read, and whether it
\* called ll.clear_mask_break()
Returned(name, condition, cleared) ==
    [ call |-> name, value |-> condition, clear_mask_break |-> cleared ]

push_varying_loop_condition ==
    /\ pc = "codegen"
    /\ Len(calls) < MaxCalls
    /\ \E condition \in Conditions :
           /\ m_generated_loops_condition_stack' =
                  Append(m_generated_loops_condition_stack, condition)
           /\ calls' = Append(calls, Returned("push_varying_loop_condition", condition, FALSE))
    /\ UNCHANGED << analysisVars, pc, assertFailed >>

varying_condition_of_innermost_loop ==
    /\ pc = "codegen"
    /\ Len(calls) < MaxCalls
    /\ IF m_generated_loops_condition_stack = << >>
       THEN Abort("false == m_generated_loops_condition_stack.empty()")
       ELSE /\ calls' = Append(calls, Returned("varying_condition_of_innermost_loop",
                                                Back(m_generated_loops_condition_stack), FALSE))
            /\ UNCHANGED << analysisVars, pc, assertFailed, m_generated_loops_condition_stack >>

pop_varying_loop_condition ==
    /\ pc = "codegen"
    /\ Len(calls) < MaxCalls
    /\ IF m_generated_loops_condition_stack = << >>
       THEN Abort("false == m_generated_loops_condition_stack.empty()")
       ELSE LET varying_loop_condition == Back(m_generated_loops_condition_stack)
            IN  /\ m_generated_loops_condition_stack' = PopBack(m_generated_loops_condition_stack)
                /\ calls' = Append(calls, Returned("pop_varying_loop_condition",
                                                   varying_loop_condition,
                                                   varying_loop_condition # "nullptr"))
                /\ UNCHANGED << analysisVars, pc, assertFailed >>

NextCodegen ==
    push_varying_loop_condition \/ varying_condition_of_innermost_loop
        \/ pop_varying_loop_condition

----------------------------------------------------------------------------
(* The query API.                                                          *)

\* BackendLLVMWide::isSymbolUniform; "abort" when its ASSERT fails
isSymbolUniform(sym) ==
    IF DOMAIN m_is_uniform_by_symbol = {} THEN "abort"
    ELSE IF sym \notin DOMAIN m_is_uniform_by_symbol
         THEN (IF symtype(sym) = "OutputParam" THEN FALSE ELSE TRUE)
         ELSE m_is_uniform_by_symbol[sym]

\* BackendLLVMWide::requiresMasking; "abort" when one of its ASSERTs fails
requiresMasking(opIndex) ==
    IF m_requires_masking_by_layer_and_op_index = << >> THEN "abort"
    ELSE IF ~(Len(m_requires_masking_by_layer_and_op_index) > opIndex) THEN "abort"
    ELSE m_requires_masking_by_layer_and_op_index[opIndex + 1]

----------------------------------------------------------------------------
(* Specifications: the analysis of every layer of a bounded family.        *)

MaxOps == 3

\* ops is one for loop on the local x with straight-line blocks over al that hold
\* at most n ops in all
IsForLoop(n, al) ==
    \E tab \in { BlockTable(n, 0, al)[FALSE] } :
        \E m \in 0..n :
            \E sp \in Splits(4, m) :
                \E ini \in tab[sp[1] + 1], cnd \in tab[sp[2] + 1],
                   body \in tab[sp[3] + 1], step \in tab[sp[4] + 1] :
                    ops = LoopStmt("for", "x", ini, cnd, body, step)

\* the state in which discoverVaryingAndMaskingOfLayer starts its walk of ops
InitAnalysis ==
    /\ ranges = << >>
    /\ pc = "walk"
    /\ assertFailed = ""
    /\ frames = << TopFrame(<< 0, Len(ops) >>) >>
    /\ m_is_uniform_by_symbol = << >>
    /\ m_requires_masking_by_layer_and_op_index = [ i \in 1..Len(ops) |-> FALSE ]
    /\ symbolFeedForwardMap = {}
    /\ usageInfoBySymbol = << >>
    /\ symbolsCurrentBlockDependsOn = << >>
    /\ loopControlFlowSymbolStack = << >>
    /\ symbolsWrittenToByGetAttribute = << >>
    /\ nextMaskId = mainMask + 1
    /\ trace = << >>
    /\ m_generated_loops_condition_stack = << >>
    /\ calls = << >>

\* nested ifs and for loops over a local and an output parameter
NestAlphabet ==
    [ simple |-> { Store("x"), Use("x"), Store("o") }, ifs |-> { "x" },
      fors |-> { "x" }, whiles |-> {}, calls |-> FALSE ]

Init == IsLayer(MaxOps, NestAlphabet) /\ InitAnalysis

Spec == Init /\ [][Next]_vars

MaxSeedOps == 3

\* straight-line code over globals, parameters, output parameters and locals
SeedAlphabet ==
    [ simple |-> { Assign("x", "P"), Assign("x", "Ci"), Assign("x", "q"), Assign("x", "k"),
                   Assign("y", "x"), Use("P"), Store("P"), Use("k"),
                   Store("o"), Assign("o", "x"), GetAttribute("y") },
      ifs |-> {}, fors |-> {}, whiles |-> {}, calls |-> FALSE ]

InitSeeds == IsLayer(MaxSeedOps, SeedAlphabet) /\ InitAnalysis

SpecSeeds == InitSeeds /\ [][Next]_vars

MaxLoopOps == 4

\* a counter y, the loop condition x computed from it, a local c assigned from it
LoopAlphabet ==
    [ simple |-> { Incr("y"), Assign("x", "y"), Assign("c", "y") },
      ifs |-> {}, fors |-> {}, whiles |-> {}, calls |-> FALSE ]

InitLoop == IsForLoop(MaxLoopOps, LoopAlphabet) /\ InitAnalysis

SpecLoop == InitLoop /\ [][Next]_vars

MaxIfOps == 4

\* nested ifs on the varying global P around writes and reads of the locals x and y
IfAlphabet ==
    [ simple |-> { Store("x"), Use("x"), Assign("y", "x") },
      ifs |-> { "P" }, fors |-> {}, whiles |-> {}, calls |-> FALSE ]

InitIf == IsLayer(MaxIfOps, IfAlphabet) /\ InitAnalysis

SpecIf == InitIf /\ [][Next]_vars

MaxVaryOps == 4

\* while loops on the local c around ifs on the local x, which an op may assign
\* from the varying global P, and breaks
VaryAlphabet ==
    [ simple |-> { Assign("x", "P") },
      ifs |-> { "x" }, fors |-> {}, whiles |-> { "c" }, calls |-> FALSE ]

InitVary == IsLayer(MaxVaryOps, VaryAlphabet) /\ InitAnalysis

SpecVary == InitVary /\ [][Next]_vars

MaxTermOps == 3

\* assignments of the local x from the varying global P, ifs on x and breaks
TermAlphabet ==
    [ simple |-> { Assign("x", "P") },
      ifs |-> { "x" }, fors |-> {}, whiles |-> {}, calls |-> FALSE ]

\* ops is one while loop on the local c whose body holds at most n ops over al,
\* nested as deep as n ops allow
IsWhileLoop(n, al) ==
    \E tab \in { BlockTable(n, n, al)[TRUE] } :
        \E m \in 0..n : \E body \in tab[m + 1] :
            ops = LoopStmt("while", "c", << >>, << >>, body, << >>)

InitTerm == IsWhileLoop(MaxTermOps, TermAlphabet) /\ InitAnalysis

\* the analysis runs on: discoverVaryingAndMaskingOfLayer is one sequential call,
\* which takes its next step whenever it has one
SpecTerm == InitTerm /\ [][Next]_vars /\ WF_vars(Next)

MaxBreakOps == 4

\* for loops on the local x, in any block of one another, around writes of x and breaks
BreakAlphabet ==
    [ simple |-> { Store("x") },
      ifs |-> {}, fors |-> { "x" }, whiles |-> {}, calls |-> FALSE ]

InitBreak == IsLayer(MaxBreakOps, BreakAlphabet) /\ InitAnalysis

SpecBreak == InitBreak /\ [][Next]_vars

MaxCallOps == 4

\* straight-line code with function calls, over locals, the connected parameter k and
\* the output parameter o
CallAlphabet ==
    [ simple |-> { Store("x"), Use("x"), Assign("y", "x"), Assign("x", "k"), Store("o") },
      ifs |-> {}, fors |-> {}, whiles |-> {}, calls |-> TRUE ]

InitCall == IsLayer(MaxCallOps, CallAlphabet) /\ InitAnalysis

SpecCall == InitCall /\ [][Next]_vars

MaxOutOps == 4

\* writes of the output parameters o (connected downstream) and o2 (never read, not
\* connected) and reads of o, under ifs on the local x
OutAlphabet ==
    [ simple |-> { Store("o"), Store("o2"), Use("o") },
      ifs |-> { "x" }, fors |-> {}, whiles |-> {}, calls |-> FALSE ]

InitOut == IsLayer(MaxOutOps, OutAlphabet) /\ InitAnalysis

SpecOut == InitOut /\ [][Next]_vars

MaxInitOps == 3

\* for loops on the connected parameter k, in any block of one another, around
\* writes of the local y, from nothing or from the varying global P, reads of y
\* and breaks
InitAlphabet ==
    [ simple |-> { Store("y"), Assign("y", "P"), Assign("c", "y"), Use("y") },
      ifs |-> {}, fors |-> { "k" }, whiles |-> {}, calls |-> FALSE ]

InitInit == IsLayer(MaxInitOps, InitAlphabet) /\ InitAnalysis

SpecInit == InitInit /\ [][Next]_vars

MaxNameOps == 3

\* writes and reads of the local x and of the global P under ifs on the globals P
\* (varying) or Ci (uniform) and while loops on x
NameAlphabet ==
    [ simple |-> { Store("x"), Use("x"), Store("P"), Use("P") },
      ifs |-> { "P", "Ci" }, fors |-> {}, whiles |-> { "x" }, calls |-> FALSE ]

InitNames == IsLayer(MaxNameOps, NameAlphabet) /\ InitAnalysis

SpecNames == InitNames /\ [][Next]_vars

MaxFlowOps == 3

\* values flowing from a getattribute result and between the globals P and Ci and
\* the locals, under ifs on the getattribute result
FlowAlphabet ==
    [ simple |-> { GetAttributeOf("y", "Ci"), Assign("c", "y"), Assign("x", "c"),
                   Assign("y", "x"), Assign("x", "Ci"), Assign("Ci", "P"), Use("P") },
      ifs |-> { "y" }, fors |-> {}, whiles |-> {}, calls |-> FALSE ]

InitFlow == IsLayer(MaxFlowOps, FlowAlphabet) /\ InitAnalysis

SpecFlow == InitFlow /\ [][Next]_vars

MaxAnyOps == 3

\* the jump targets an op at index i of a layer of n ops may carry when nothing
\* relates them to the blocks around the op: k targets, none before the op after i,
\* none past the end of the layer, in ascending order
JumpsFrom(i, n, k) ==
    { << j[1], IF k > 1 THEN j[2] ELSE -1, IF k > 2 THEN j[3] ELSE -1,
         IF k > 3 THEN j[4] ELSE -1 >> :
        j \in { t \in [ 1..4 -> (i + 1)..n ] :
                  /\ \A a \in 1..3 : t[a] <= t[a + 1]
                  /\ \A a \in (k + 1)..4 : t[a] = n } }

\* the ops that may stand at index i of a layer of n ops: straight-line ops, a
\* break, control ops with any forward jump targets, an if with no condition or
\* with two, an op with a jump that is no control op
AnyOpsAt(i, n) ==
    { Store("x"), Use("x"), Break,
      Opcode("if", << >>, << i + 1, i + 1, -1, -1 >>),
      Opcode("if", << Arg("x", TRUE, FALSE), Arg("y", TRUE, FALSE) >>,
             << i + 1, i + 1, -1, -1 >>) }
    \cup { Opcode("if", << Arg("x", TRUE, FALSE) >>, j) : j \in JumpsFrom(i, n, 2) }
    \cup { Opcode("for", << Arg("x", TRUE, FALSE) >>, j) : j \in JumpsFrom(i, n, 4) }
    \cup { Opcode("functioncall", << >>, j) : j \in JumpsFrom(i, n, 1) }
    \cup { Opcode("assign", << Arg("x", FALSE, TRUE) >>, j) : j \in JumpsFrom(i, n, 1) }

RECURSIVE AnyOpsFrom(_, _)
\* the op streams for the indices i, i + 1, ..., n - 1 of a layer of n ops
AnyOpsFrom(i, n) ==
    IF i >= n THEN { << >> }
    ELSE { << o >> \o rest : o \in AnyOpsAt(i, n), rest \in AnyOpsFrom(i + 1, n) }

\* a layer of at most MaxAnyOps ops that need not meet the contract on the IR
InitAny ==
    /\ \E n \in 1..MaxAnyOps : \E tail \in AnyOpsFrom(1, n) : \E o \in AnyOpsAt(0, n) :
           ops = << o >> \o tail
    /\ InitAnalysis

SpecAny == InitAny /\ [][Next]_vars

\* code generation with an empty stack of loop conditions, the analysis at rest
InitCodegen ==
    /\ ops = << >>
    /\ ranges = << >>
    /\ pc = "codegen"
    /\ assertFailed = ""
    /\ frames = << >>
    /\ m_is_uniform_by_symbol = << >>
    /\ m_requires_masking_by_layer_and_op_index = << >>
    /\ symbolFeedForwardMap = {}
    /\ usageInfoBySymbol = << >>
    /\ symbolsCurrentBlockDependsOn = << >>
    /\ loopControlFlowSymbolStack = << >>
    /\ symbolsWrittenToByGetAttribute = << >>
    /\ nextMaskId = mainMask + 1
    /\ trace = << >>
    /\ m_generated_loops_condition_stack = << >>
    /\ calls = << >>

SpecCodegen == InitCodegen /\ [][NextCodegen]_vars

----------------------------------------------------------------------------
(* Properties.                                                             *)

Done == pc = "done"

\* C1: for every layer that meets the input contract, the analysis runs to
\* completion and none of its ASSERTs fails
C1_NoAssertionFails == pc # "abort"

\* the symbols that appear as an argument of some op of the layer
ArgSymbols == UNION { { Op(i).args[a].sym : a \in 1..Len(Op(i).args) } : i \in 0..(Len(ops) - 1) }

GetAttributeResults == SeqToSet(symbolsWrittenToByGetAttribute)

RECURSIVE FedFrom(_)
\* the symbols reached from the symbols of S along feed-forward edges
FedFrom(S) ==
    LET T == S \cup { e[2] : e \in { d \in symbolFeedForwardMap : d[1] \in S } }
    IN  IF T = S THEN S ELSE FedFrom(T)

IsVaryingGlobal(s) == symtype(s) = "Global" /\ ~IsShaderGlobalUniformByName(s)

\* the varying seeds as the claims list them
ClaimedSeeds ==
    { s \in Symbols : \/ IsVaryingGlobal(s)
                      \/ symtype(s) = "Param" /\ SymTab[s].connected
                      \/ symtype(s) = "OutputParam"
                      \/ s \in GetAttributeResults }

\* the varying seeds with every parameter counted, connected or not
SeedsWithEveryParam ==
    { s \in Symbols : \/ IsVaryingGlobal(s)
                      \/ symtype(s) = "Param"
                      \/ symtype(s) = "OutputParam"
                      \/ s \in GetAttributeResults }

OpIndices == 0..(Len(ops) - 1)

\* op o writes s, and an op walked after o reads s at a block depth strictly
\* shallower than the depth o wrote at, under a mask id other than o's
ReadLaterAtShallowerDepth(o, s) ==
    \E i, j \in DOMAIN trace :
        /\ i < j
        /\ trace[i].op = o
        /\ s \in SeqToSet(symbolsWrittenByOp(Op(o)))
        /\ s \in SeqToSet(symbolsReadByOp(Op(trace[j].op)))
        /\ trace[j].blockDepth < trace[i].writeBlockDepth
        /\ trace[j].maskId # trace[i].writeMaskId

WritesOutputParam(o) ==
    \E s \in SeqToSet(symbolsWrittenByOp(Op(o))) : symtype(s) = "OutputParam"

\* the loop ops whose blocks contain op o
EnclosingLoops(o) ==
    { l \in OpIndices : IsLoopOp(Op(l)) /\ l < o /\ o < farthest_jump(Op(l)) }

WritesEnclosingLoopCondition(o) ==
    \E l \in EnclosingLoops(o) :
        Op(l).args[1].sym \in SeqToSet(symbolsWrittenByOp(Op(o)))

\* C3 as stated: after the analysis every op flagged requires_masking writes a
\* symbol that an op walked later reads at a strictly shallower depth under a
\* different mask id, or writes an output parameter
C3_FlaggedOpsAreReadShallower ==
    Done => \A o \in OpIndices :
                (requiresMasking(o) = TRUE) =>
                    \/ \E s \in Symbols : ReadLaterAtShallowerDepth(o, s)
                    \/ WritesOutputParam(o)

\* C3 amended: after the analysis every op flagged requires_masking writes a
\* symbol that an op walked later reads at a strictly shallower depth under a
\* different mask id, or writes an output parameter, or writes the condition
\* symbol of a loop that contains it, or is a break
C3_FlaggedOpsHaveACause ==
    Done => \A o \in OpIndices :
                (requiresMasking(o) = TRUE) =>
                    \/ \E s \in Symbols : ReadLaterAtShallowerDepth(o, s)
                    \/ WritesOutputParam(o)
                    \/ WritesEnclosingLoopCondition(o)
                    \/ Op(o).opname = "break"

\* a finished analysis that flagged an op because of a later shallower read alone
C3_Witness ==
    /\ Done
    /\ \E o \in OpIndices :
           /\ requiresMasking(o) = TRUE
           /\ \E s \in Symbols : ReadLaterAtShallowerDepth(o, s)
           /\ ~WritesOutputParam(o)
           /\ ~WritesEnclosingLoopCondition(o)

\* the loop at op 0 has an op in each of its init, condition, body and step blocks
HasAllFourBlocks ==
    /\ ops # << >>
    /\ IsLoopOp(Op(0))
    /\ 1 < Op(0).jump[1]
    /\ Op(0).jump[1] < Op(0).jump[2]
    /\ Op(0).jump[2] < Op(0).jump[3]
    /\ Op(0).jump[3] < Op(0).jump[4]

AllArgSymbolsUniform == \A s \in ArgSymbols : isSymbolUniform(s) = TRUE

\* C4 as stated: for a for loop with init, condition, body and step blocks, no
\* break and no varying seed, the analysis flags no op and reports every symbol
\* of the layer uniform
C4_LoopFlagsNothing ==
    (Done /\ HasAllFourBlocks) =>
        /\ \A o \in OpIndices : requiresMasking(o) = FALSE
        /\ AllArgSymbolsUniform

\* C4 amended: for a layer that is one for loop with straight-line blocks, no break
\* and no varying seed, the analysis reports every symbol of the layer uniform and
\* flags exactly the ops of the condition, body and step blocks that write the
\* loop's condition symbol or a symbol that an op walked later reads at the loop's
\* own depth; the loop op and the ops of the init block are never flagged
C4_LoopFlagsOnlyConditionFeeders ==
    Done =>
        /\ AllArgSymbolsUniform
        /\ \A o \in OpIndices :
               (requiresMasking(o) = TRUE) <=>
                   /\ o >= Op(0).jump[1]
                   /\ \/ Op(0).args[1].sym \in SeqToSet(symbolsWrittenByOp(Op(o)))
                      \/ \E s \in Symbols : ReadLaterAtShallowerDepth(o, s)

\* the analysis has finished a loop whose init block writes y, whose condition block
\* computes x from y, whose body reads y and whose step block writes y: the ops of
\* the condition and step blocks are flagged, those of the init block and body not
C4_Witness ==
    /\ Done
    /\ ops = LoopStmt("for", "x", << Incr("y") >>, << Assign("x", "y") >>,
                      << Assign("c", "y") >>, << Incr("y") >>)
    /\ m_requires_masking_by_layer_and_op_index = << FALSE, FALSE, TRUE, FALSE, TRUE >>
    /\ AllArgSymbolsUniform

\* where the walk reached op o
TracePos(o) == CHOOSE i \in DOMAIN trace : trace[i].op = o

IfOps == { i \in OpIndices : Op(i).opname = "if" }

\* op w lies in the then-body or the else-body of the if op i
InBodies(i, w) == i < w /\ w < Op(i).jump[2]

LocalsWrittenBy(w) == { s \in SeqToSet(symbolsWrittenByOp(Op(w))) : symtype(s) = "Local" }

\* op r comes after the if op i, at the block depth of i, and reads s
ReadsAfterIfAtItsDepth(i, r, s) ==
    /\ r >= Op(i).jump[2]
    /\ s \in SeqToSet(symbolsReadByOp(Op(r)))
    /\ trace[TracePos(r)].blockDepth = trace[TracePos(i)].blockDepth

\* no op walked between w and r writes s at the depth of the if op i or shallower
NoShallowWriteBetween(i, w, r, s) ==
    \A n \in DOMAIN trace :
        (/\ TracePos(w) < n
         /\ n < TracePos(r)
         /\ s \in SeqToSet(symbolsWrittenByOp(Op(trace[n].op))))
            => trace[n].writeBlockDepth > trace[TracePos(i)].blockDepth

\* op w is flagged and s, with every symbol computed from it, is reported varying
FlaggedAndVarying(w, s) ==
    /\ requiresMasking(w) = TRUE
    /\ \A t \in FedFrom({s}) : isSymbolUniform(t) = FALSE

LoopOps == { l \in OpIndices : IsLoopOp(Op(l)) }

BreakOps == { b \in OpIndices : Op(b).opname = "break" }

\* op o lies in the body block of the loop op l
InBody(l, o) == Op(l).jump[2] <= o /\ o < Op(l).jump[3]

\* op o lies in the condition, body or step block of the loop op l, the blocks
\* walked while the condition of l is on loopControlFlowSymbolStack
InIteration(l, o) == Op(l).jump[1] <= o /\ o < Op(l).jump[4]

\* the loop a break at op b leaves
LoopOfBreak(b) ==
    CHOOSE l \in LoopOps :
        /\ InIteration(l, b)
        /\ \A m \in LoopOps : InIteration(m, b) => m <= l

\* the ifs opened in the body of loop l that the break b is nested under
IfsAroundBreak(l, b) == { i \in IfOps : InBody(l, i) /\ InBodies(i, b) }

\* C6: for every loop whose body holds a break of that loop under ifs opened in
\* the loop, if the analysis reports the condition of one of these ifs varying it
\* reports the loop's condition varying
C6_VaryingBreakMakesLoopVarying ==
    Done => \A l \in LoopOps : \A b \in BreakOps :
                (InBody(l, b) /\ LoopOfBreak(b) = l) =>
                    \A i \in IfsAroundBreak(l, b) :
                        (isSymbolUniform(Op(i).args[1].sym) = FALSE)
                            => isSymbolUniform(Op(l).args[1].sym) = FALSE

\* the analysis has finished a loop on c whose break lies under an if on the local
\* x, itself assigned from the varying global P: x and c are reported varying
C6_Witness ==
    /\ Done
    /\ \E l \in LoopOps : \E b \in BreakOps :
           /\ InBody(l, b)
           /\ LoopOfBreak(b) = l
           /\ \E i \in IfsAroundBreak(l, b) : Op(i).args[1].sym = "x"
    /\ isSymbolUniform("x") = FALSE
    /\ isSymbolUniform("c") = FALSE

Walked(o) == \E n \in DOMAIN trace : trace[n].op = o

\* the walk has gone through the loop op l and all of its blocks, and has checked
\* the loop's condition at the loop's own depth and mask
FullyWalked(l) ==
    /\ Walked(l)
    /\ \A n \in DOMAIN frames : ~(frames[n].opIndex = l /\ frames[n].stage # "op")

PendingOn(s) ==
    IF s \in DOMAIN usageInfoBySymbol
    THEN SeqToSet(usageInfoBySymbol[s].potentially_unmasked_ops)
    ELSE {}

\* C7: every break the walk has passed is a pending write, at the break's write
\* depth, on the condition of the innermost loop around it until it is flagged, and
\* it is flagged once that loop has been fully walked
C7_BreaksFlaggedWhenLoopWalked ==
    \A b \in BreakOps :
        Walked(b) =>
            /\ \/ << trace[TracePos(b)].writeBlockDepth, b >>
                       \in PendingOn(Op(LoopOfBreak(b)).args[1].sym)
               \/ requiresMasking(b) = TRUE
            /\ FullyWalked(LoopOfBreak(b)) => requiresMasking(b) = TRUE

BodyOps(i) == { w \in OpIndices : InBodies(i, w) }

\* the ops of the then and else blocks of the if op i that the walk writes at the
\* depth the if opens, i.e. that lie in no if or loop nested in these blocks
OwnBodyOps(i) ==
    { w \in BodyOps(i) :
        trace[TracePos(w)].writeBlockDepth = trace[TracePos(i)].blockDepth + 1 }

WrittenInBodies(i) == UNION { SeqToSet(symbolsWrittenByOp(Op(w))) : w \in BodyOps(i) }

\* an op walked after the if op i and outside its blocks reads s
ReadAfterIf(i, s) ==
    \E r \in OpIndices :
        /\ r # i
        /\ ~InBodies(i, r)
        /\ TracePos(r) > TracePos(i)
        /\ s \in SeqToSet(symbolsReadByOp(Op(r)))

\* the if op i has a uniform condition and its bodies write only locals that no op
\* reads after the if
WritesOnlyUnreadLocals(i) ==
    /\ isSymbolUniform(Op(i).args[1].sym) = TRUE
    /\ \A s \in WrittenInBodies(i) : symtype(s) = "Local" /\ ~ReadAfterIf(i, s)

\* the bodies of the if op i hold no break and write the condition of no loop
\* around the if
LeavesLoopsAlone(i) ==
    /\ \A w \in BodyOps(i) : Op(w).opname # "break"
    /\ \A l \in EnclosingLoops(i) : Op(l).args[1].sym \notin WrittenInBodies(i)

\* C8 as stated: an if whose condition is uniform and whose bodies write only
\* locals that no op reads after the if has none of the ops of its bodies flagged
C8_UniformIfFlagsNothing ==
    Done => \A i \in IfOps :
                WritesOnlyUnreadLocals(i) =>
                    \A w \in OwnBodyOps(i) : requiresMasking(w) = FALSE

\* C8 amended: as C8, for an if whose bodies hold no break and write the condition
\* symbol of no loop that contains the if
C8_UniformIfOutsideLoopControlFlagsNothing ==
    Done => \A i \in IfOps :
                (WritesOnlyUnreadLocals(i) /\ LeavesLoopsAlone(i)) =>
                    \A w \in OwnBodyOps(i) : requiresMasking(w) = FALSE

\* the analysis has finished a layer with an if on a uniform condition whose body
\* writes a local that no op reads after the if, and the write is not flagged
C8_Witness ==
    /\ Done
    /\ \E i \in IfOps :
           /\ WritesOnlyUnreadLocals(i)
           /\ LeavesLoopsAlone(i)
           /\ \E w \in OwnBodyOps(i) :
                  /\ symbolsWrittenByOp(Op(w)) # << >>
                  /\ requiresMasking(w) = FALSE

\* C9: after the analysis every varying global and every connected parameter that
\* is an argument of some op is reported varying
C9_SeedArgumentsVarying ==
    Done => \A s \in ArgSymbols :
                (IsVaryingGlobal(s) \/ (symtype(s) = "Param" /\ SymTab[s].connected))
                    => isSymbolUniform(s) = FALSE

\* C10: after the analysis every output parameter of the layer is reported varying
C10_OutputParamsVarying ==
    Done => \A s \in SeqToSet(Params) :
                (symtype(s) = "OutputParam") => isSymbolUniform(s) = FALSE

\* a finished analysis of a layer that writes the output parameter o from the
\* local x only, x being reported uniform, and that never touches o2
C10_Witness ==
    /\ Done
    /\ \E i \in 0..(Len(ops) - 1) : Op(i) = Assign("o", "x")
    /\ \A i \in 0..(Len(ops) - 1) : Op(i) # Store("o")
    /\ isSymbolUniform("x") = TRUE
    /\ "o2" \notin ArgSymbols

\* the blocks an if op or a loop op opens, as pairs << first op, op after the last >>
BlocksOpenedBy(i) ==
    IF Op(i).opname = "if"
    THEN { << i + 1, Op(i).jump[1] >>, << Op(i).jump[1], Op(i).jump[2] >> }
    ELSE IF IsLoopOp(Op(i))
    THEN { << i + 1, Op(i).jump[1] >>, << Op(i).jump[1], Op(i).jump[2] >>,
           << Op(i).jump[2], Op(i).jump[3] >>, << Op(i).jump[3], Op(i).jump[4] >> }
    ELSE {}

\* the innermost block that holds op o; the whole layer if no if or loop holds it
BlockOf(o) ==
    LET around == { b \in UNION { BlocksOpenedBy(i) : i \in OpIndices } \cup { << 0, Len(ops) >> } :
                      b[1] <= o /\ o < b[2] }
    IN  CHOOSE b \in around : \A a \in around : a[1] <= b[1]

\* op o writes s, and an op walked after o, outside the block of o, reads s under
\* a mask id other than the one o wrote under
ReadLaterOutsideBlock(o, s) ==
    \E i, j \in DOMAIN trace :
        /\ i < j
        /\ trace[i].op = o
        /\ s \in SeqToSet(symbolsWrittenByOp(Op(o)))
        /\ s \in SeqToSet(symbolsReadByOp(Op(trace[j].op)))
        /\ ~(BlockOf(o)[1] <= trace[j].op /\ trace[j].op < BlockOf(o)[2])
        /\ trace[j].maskId # trace[i].writeMaskId

\* C11: after the analysis an op is flagged requires_masking if and only if it
\* writes a symbol that an op walked later reads outside the op's block under a
\* mask id different from the one the op wrote under
C11_FlaggedIffReadOutsideBlock ==
    Done => \A o \in OpIndices :
                (requiresMasking(o) = TRUE) <=> \E s \in Symbols : ReadLaterOutsideBlock(o, s)

\* the symbols the walk has discovered: the arguments of the ops it walked
Discovered ==
    UNION { { Op(trace[n].op).args[a].sym : a \in 1..Len(Op(trace[n].op).args) } :
              n \in DOMAIN trace }

\* the symbols written by the getattribute ops the walk went through
GetAttributeWrites ==
    UNION { SeqToSet(symbolsWrittenByOp(Op(trace[n].op))) :
              n \in { m \in DOMAIN trace : Op(trace[m].op).opname = "getattribute" } }

OutputParamSet == { s \in SeqToSet(Params) : symtype(s) = "OutputParam" }

\* the symbols the passes after the walk mark on their own account: the varying
\* globals and the parameters that feed some symbol, the output parameters, the
\* symbols written by getattribute
VaryingRoots ==
    { s \in { e[1] : e \in symbolFeedForwardMap } : IsVaryingGlobal(s) \/ symtype(s) = "Param" }
        \cup OutputParamSet \cup GetAttributeWrites

\* the one is_uniform table the layer determines
UniformTableOfLayer ==
    [ s \in Discovered \cup OutputParamSet |-> s \notin FedFrom(VaryingRoots) ]

\* a step of a pass whose outcome could depend on the order of the multimap
OrderedPassStep == pc \in { "seeds", "markOutputs", "markGetAttribute" }

\* C12: whatever order the feed-forward multimap keeps its pairs in, a finished
\* analysis has the one is_uniform table that the layer determines, and the passes
\* that iterate the multimap leave the requires_masking table of the walk as it is
C12_TablesDependOnLayerAlone ==
    /\ [](Done => m_is_uniform_by_symbol = UniformTableOfLayer)
    /\ [][OrderedPassStep => m_requires_masking_by_layer_and_op_index'
                                = m_requires_masking_by_layer_and_op_index]_vars

\* a finished analysis in which a varying symbol feeds two symbols, so that the
\* multimap may keep its pairs in more than one order
C12_Witness ==
    /\ Done
    /\ \E s \in Symbols :
           /\ isSymbolUniform(s) = FALSE
           /\ Cardinality({ e \in symbolFeedForwardMap : e[1] = s }) >= 2
           /\ \A e \in symbolFeedForwardMap : (e[1] = s) => isSymbolUniform(e[2]) = FALSE
    /\ Cardinality(Orders(FeedSymbols)) >= 6

\* the walk of the layer is over and the passes that look at the seeds begin
WalkIsOver == pc = "outputs"

\* what a first run may take each discovered symbol for: no seed, a global or
\* parameter the seed scan marks, an output parameter the pass before the scan
\* checks; the seed a second run adds may also be an output parameter that pass
\* skips ("skipped")
SeedKinds == [ Discovered -> { "none", "scan", "checked" } ]

SymbolsAs(kinds, wanted, order) == SelectSeq(order, LAMBDA s : kinds[s] \in wanted)

\* an order in which a container may keep the members of S (a quantifier binds it,
\* so that it is chosen once)
AnOrder(S) == { CHOOSE q \in Orders(S) : TRUE }

\* the outcome of the passes after the walk in a run whose seeds are those of kinds,
\* with the parameters declared in the order params and the multimap kept in order
RunWith(kinds, params, order) ==
    LET keys   == SelectSeq(order, LAMBDA r : \E e \in symbolFeedForwardMap : e[1] = r)
        st     == EnsureOutputs([ usage |-> usageInfoBySymbol,
                                  masking |-> m_requires_masking_by_layer_and_op_index,
                                  ok |-> TRUE ],
                                SymbolsAs(kinds, { "checked" }, params))
        scanned == MarkEach(m_is_uniform_by_symbol, SymbolsAs(kinds, { "scan" }, keys), order)
        outputs == MarkEach(scanned, SymbolsAs(kinds, { "checked", "skipped" }, params), order)
        final   == MarkEach(outputs, symbolsWrittenToByGetAttribute, order)
    IN  [ ok |-> st.ok,
          flagged |-> { o \in OpIndices : st.masking[o + 1] },
          varying |-> { s \in DOMAIN final : ~final[s] } ]

\* C13: of two runs on the same ops that both finish, the second with the seeds of
\* the first and one seed more, the second reports varying every symbol the first
\* reports varying and flags every op the first flags
C13_MonotoneInSeeds ==
    WalkIsOver =>
        \A params \in AnOrder(Discovered), order \in AnOrder(FeedSymbols) :
            \A kinds \in SeedKinds :
                \A first \in { RunWith(kinds, params, order) } :
                    \A a \in Discovered, kind \in { "scan", "checked", "skipped" } :
                        (kinds[a] = "none" /\ first.ok) =>
                            \A second \in { RunWith([kinds EXCEPT ![a] = kind], params, order) } :
                                second.ok =>
                                    /\ first.varying \subseteq second.varying
                                    /\ first.flagged \subseteq second.flagged

\* the walk of a layer is over and one more seed makes a second run report more
\* symbols varying and flag more ops than a first run that itself reports some
C13_Witness ==
    /\ WalkIsOver
    /\ \E params \in AnOrder(Discovered), order \in AnOrder(FeedSymbols) :
           \E kinds \in SeedKinds : \E a \in Discovered :
               /\ kinds[a] = "none"
               /\ \E first \in { RunWith(kinds, params, order) },
                     second \in { RunWith([kinds EXCEPT ![a] = "checked"], params, order) } :
                      /\ first.ok /\ second.ok
                      /\ first.varying # {}
                      /\ first.varying # second.varying
                      /\ first.flagged # second.flagged

\* the analysis of a layer with no op has finished
EmptyLayerDone == Done /\ ops = << >>

\* C14 as stated: the analysis of a layer with zero ops leaves the is_uniform table
\* and the requires_masking table of the layer empty
C14_EmptyLayerEmptyTables ==
    EmptyLayerDone =>
        /\ DOMAIN m_is_uniform_by_symbol = {}
        /\ m_requires_masking_by_layer_and_op_index = << >>

\* C14 amended: the analysis of a layer with zero ops leaves the requires_masking
\* table of the layer empty and the is_uniform table with one entry for each output
\* parameter the layer declares, marked varying, and no other entry
C14_EmptyLayerHoldsOutputParamsOnly ==
    EmptyLayerDone =>
        /\ m_requires_masking_by_layer_and_op_index = << >>
        /\ DOMAIN m_is_uniform_by_symbol = OutputParamSet
        /\ \A s \in OutputParamSet : m_is_uniform_by_symbol[s] = FALSE

\* the analysis of the layer with no op has finished and the table holds the
\* output parameter o2, which nothing reads and nothing is connected to
C14_Witness ==
    /\ EmptyLayerDone
    /\ trace = << >>
    /\ "o2" \in DOMAIN m_is_uniform_by_symbol

CallOps == { i \in OpIndices : Op(i).opname = "functioncall" }

\* no op of the layer is an if or a loop
StraightLineWithCalls ==
    \A i \in OpIndices : Op(i).opname # "if" /\ ~IsLoopOp(Op(i))

\* no argument of an op is a varying seed (a parameter counts as one, connected or
\* not, as the seed scan has it)
NoVaryingSeed == ArgSymbols \cap SeedsWithEveryParam = {}

RECURSIVE Unpopped(_)
\* the entries pushed by the calls of log and not popped by them, oldest first
Unpopped(log) ==
    IF log = << >> THEN << >>
    ELSE LET before == Unpopped(SubSeq(log, 1, Len(log) - 1))
             last   == log[Len(log)]
         IN  IF last.call = "push_varying_loop_condition" THEN Append(before, last.value)
             ELSE IF last.call = "pop_varying_loop_condition"
                  THEN SubSeq(before, 1, Len(before) - 1)
                  ELSE before

\* the entries pushed and not popped before the n-th call
UnpoppedBefore(n) == Unpopped(SubSeq(calls, 1, n - 1))

\* C16: after any sequence of calls the stack holds the entries pushed and not
\* popped; varying_condition_of_innermost_loop returned, and
\* pop_varying_loop_condition removed, the most recently pushed entry not yet
\* popped, nullptr included; and from an empty stack every call but a push aborts
C16_StackIsLastInFirstOut ==
    /\ [](/\ m_generated_loops_condition_stack = Unpopped(calls)
          /\ \A n \in DOMAIN calls :
                 (calls[n].call # "push_varying_loop_condition") =>
                     /\ UnpoppedBefore(n) # << >>
                     /\ calls[n].value = UnpoppedBefore(n)[Len(UnpoppedBefore(n))])
    /\ [][(pc = "codegen" /\ m_generated_loops_condition_stack = << >>
              /\ m_generated_loops_condition_stack' = << >>) => pc' = "abort"]_vars

\* nullptr was pushed on top of x and read back, then popped, and x is read back
C16_Witness ==
    /\ pc = "codegen"
    /\ Len(calls) = 5
    /\ calls[1] = Returned("push_varying_loop_condition", "x", FALSE)
    /\ calls[2] = Returned("push_varying_loop_condition", "nullptr", FALSE)
    /\ calls[3] = Returned("varying_condition_of_innermost_loop", "nullptr", FALSE)
    /\ calls[4] = Returned("pop_varying_loop_condition", "nullptr", FALSE)
    /\ calls[5] = Returned("varying_condition_of_innermost_loop", "x", FALSE)

\* the op of the n-th entry of the trace
Traced(n) == Op(trace[n].op)

\* the op has a jump target and is neither if, loop nor functioncall
UnhandledJumpOp(opcode) ==
    /\ opcode.jump[1] >= 0
    /\ opcode.opname \notin { "if", "for", "while", "dowhile", "functioncall" }

\* the op is an if or a loop and does not have exactly one condition argument
BadConditionCount(opcode) ==
    /\ opcode.opname = "if" \/ IsLoopOp(opcode)
    /\ Len(opcode.args) # 1

\* the n-th op walked has a jump target outside the range [beginop, endop) that
\* was being walked
JumpsOutOfRange(n) ==
    \E j \in 1..4 :
        /\ Traced(n).jump[j] >= 0
        /\ \/ Traced(n).jump[j] > trace[n].endop
           \/ Traced(n).jump[j] <= trace[n].op

\* the n-th op walked is a break met with no loop on loopControlFlowSymbolStack
BreakOutsideLoop(n) == Traced(n).opname = "break" /\ trace[n].loops = << >>

\* the walk went through an op that is malformed in one of the three ways an
\* ASSERT of the walk tests
WalkedAssertedMalformedOp ==
    \E n \in DOMAIN trace :
        UnhandledJumpOp(Traced(n)) \/ BadConditionCount(Traced(n)) \/ BreakOutsideLoop(n)

\* C17: the analysis does not run to completion on malformed IR: not when it walks
\* an op with a jump target that is no if, loop or functioncall, nor an if or loop
\* without exactly one condition argument, nor an op with a jump target outside
\* the walked range, nor a break with the loop-control stack empty
C17_MalformedIRAborts ==
    Done => /\ ~WalkedAssertedMalformedOp
            /\ \A n \in DOMAIN trace : ~JumpsOutOfRange(n)

\* C18: after the analysis every symbol written by a getattribute op the walk went
\* through is reported varying, and so is every symbol reached from it along
\* feed-forward edges, whatever the getattribute op reads
C18_GetAttributeResultsVarying ==
    Done => \A s \in FedFrom(GetAttributeWrites) : isSymbolUniform(s) = FALSE

\* the analysis has finished a layer in which getattribute reads the uniform global
\* Ci and writes y, c is computed from y and x from c, and no varying global
\* occurs: Ci is reported uniform, y, c and x varying
C18_Witness ==
    /\ Done
    /\ \E i \in OpIndices : Op(i) = GetAttributeOf("y", "Ci")
    /\ "P" \notin ArgSymbols
    /\ << "y", "c" >> \in symbolFeedForwardMap
    /\ << "c", "x" >> \in symbolFeedForwardMap
    /\ isSymbolUniform("Ci") = TRUE
    /\ isSymbolUniform("y") = FALSE
    /\ isSymbolUniform("c") = FALSE
    /\ isSymbolUniform("x") = FALSE

GlobalArgs == { s \in ArgSymbols : symtype(s) = "Global" }

\* C20: after the analysis every global that is an argument of an op and whose
\* name is in the uniform set is reported uniform
C20_UniformGlobalsStayUniform ==
    Done => \A s \in GlobalArgs :
                IsShaderGlobalUniformByName(s) => isSymbolUniform(s) = TRUE

\* the symbols that are arguments of the n-th op walked
TracedArgs(n) == { Traced(n).args[a].sym : a \in 1..Len(Traced(n).args) }

\* the last op the walk met that has s as an argument writes s at a block depth of
\* 1 or more
LastWriteIsDeep(s) ==
    \E n \in DOMAIN trace :
        /\ s \in SeqToSet(symbolsWrittenByOp(Traced(n)))
        /\ s \notin SeqToSet(symbolsReadByOp(Traced(n)))
        /\ trace[n].writeBlockDepth >= 1
        /\ \A m \in DOMAIN trace : (m > n) => s \notin TracedArgs(m)

\* the ops the walk met writing s at a block depth of 1 or more
DeepWritesOf(s) ==
    { trace[n].op : n \in { m \in DOMAIN trace :
                              /\ s \in SeqToSet(symbolsWrittenByOp(Traced(m)))
                              /\ trace[m].writeBlockDepth >= 1 } }

\* the writes of s at depth 1 or more that no read has had flagged are flagged
\* all the same: none is left unflagged
DeepWritesFlagged(s) == \A o \in DeepWritesOf(s) : requiresMasking(o) = TRUE

\* the parameter is no structure placeholder and is read, connected upstream or
\* downstream, or a renderer output
IsReadOrConnected(s) ==
    /\ ~SymTab[s].is_structure
    /\ \/ SymTab[s].everread \/ SymTab[s].connected_down
       \/ SymTab[s].connected \/ SymTab[s].renderer_output

\* C19 as stated: after the analysis, for each output parameter whose last write was
\* made at block depth 1 or more with no later read or write of it, every write to
\* it made at depth 1 or more is flagged
C19_DeepOutputWritesFlagged ==
    Done => \A s \in OutputParamSet : LastWriteIsDeep(s) => DeepWritesFlagged(s)

\* C19 amended: as C19, for each output parameter that is no structure placeholder
\* and is read, connected or a renderer output
C19_DeepWritesOfLiveOutputsFlagged ==
    Done => \A s \in OutputParamSet :
                (IsReadOrConnected(s) /\ LastWriteIsDeep(s)) => DeepWritesFlagged(s)

\* the analysis has finished a layer that writes the output parameter o under an
\* if, and never reads o: the write is flagged
C19_Witness ==
    /\ Done
    /\ LastWriteIsDeep("o")
    /\ \A n \in DOMAIN trace : "o" \notin SeqToSet(symbolsReadByOp(Traced(n)))
    /\ DeepWritesOf("o") # {}
    /\ DeepWritesFlagged("o")

\* what a call ensureWritesAtLowerDepthAreMasked(s, d, m) that returns makes of the
\* usage info and the flags: usage0 and masking0 before the call, usage1 and
\* masking1 after it
CallEffect(usage0, masking0, usage1, masking1, s, d, m) ==
    IF /\ s \in DOMAIN usage0
       /\ usage0[s].last_depth > d
       /\ usage0[s].last_maskId # m
    THEN LET pending == usage0[s].potentially_unmasked_ops
         IN  /\ DOMAIN masking1 = DOMAIN masking0
             /\ \A i \in DOMAIN masking0 :
                    masking1[i] = (\/ masking0[i]
                                   \/ \E n \in 1..Len(pending) :
                                          pending[n][2] = i - 1 /\ pending[n][1] > d)
             /\ DOMAIN usage1 = DOMAIN usage0
             /\ usage1[s].potentially_unmasked_ops = SelectSeq(pending, LAMBDA u : u[1] <= d)
             /\ usage1[s].last_depth = d
             /\ \A t \in DOMAIN usage0 \ {s} : usage1[t] = usage0[t]
    ELSE usage1 = usage0 /\ masking1 = masking0

\* the call, made in the state the analysis is in, does to that state what
\* CallEffect says, if it returns
CallKeepsContract(s, d, m) ==
    \A r \in { ensureWritesAtLowerDepthAreMasked(
                   [ usage |-> usageInfoBySymbol,
                     masking |-> m_requires_masking_by_layer_and_op_index, ok |-> TRUE ],
                   s, d, m) } :
        r.ok => CallEffect(usageInfoBySymbol, m_requires_masking_by_layer_and_op_index,
                           r.usage, r.masking, s, d, m)

\* the walk is at an op that reads one symbol and writes none: the step that walks
\* it makes one call of ensureWritesAtLowerDepthAreMasked and records no write
AtReadOnlyOp ==
    /\ pc = "walk"
    /\ frames # << >>
    /\ Top.stage = "op"
    /\ Top.opIndex < Top.endop
    /\ Op(Top.opIndex).opname = "printf"
    /\ Len(symbolsReadByOp(Op(Top.opIndex))) = 1
    /\ symbolsWrittenByOp(Op(Top.opIndex)) = << >>

\* C21: a call ensureWritesAtLowerDepthAreMasked(s, d, m) that finds last_depth > d
\* and last_maskId # m flags exactly the pending writes of s deeper than d, removes
\* exactly those, keeps the others in order and sets last_depth to d; any other call
\* changes nothing; no call touches another symbol's usage info or another op's
\* flag.  It holds of the call in every state the analysis reaches, for every symbol
\* of the layer and a symbol without usage info, every depth, the mask id of the
\* symbol's last write and another one; and of every step of the walk that makes
\* one call.
C21_CallFlagsDeeperPendingWritesOnly ==
    /\ [](\A s \in ArgSymbols \cup { "c" } : \A d \in 0..Len(ops) :
              \A m \in { UsageOf(usageInfoBySymbol, s).last_maskId, nextMaskId } :
                  CallKeepsContract(s, d, m))
    /\ [][(AtReadOnlyOp /\ pc' = "walk") =>
              CallEffect(usageInfoBySymbol, m_requires_masking_by_layer_and_op_index,
                         usageInfoBySymbol', m_requires_masking_by_layer_and_op_index',
                         symbolsReadByOp(Op(Top.opIndex))[1], Top.blockDepth, Top.maskId)]_vars

\* the analysis has finished `x = ..; if P { x = .. }; printf(x)`: the read after
\* the if flagged the write under the if, removed it from the pending writes of x,
\* kept the write at depth 0 and left last_depth at 0
C21_Witness ==
    /\ Done
    /\ ops = << Store("x") >> \o Shift(IfStmt("P", << Store("x") >>, << >>), 1)
                 \o << Use("x") >>
    /\ m_requires_masking_by_layer_and_op_index = << FALSE, FALSE, TRUE, FALSE >>
    /\ usageInfoBySymbol["x"].potentially_unmasked_ops = << << 0, 0 >> >>
    /\ usageInfoBySymbol["x"].last_depth = 0

\* C22: whenever ensureWritesAtLowerDepthAreMasked finds a symbol whose last write
\* is deeper than the depth it is called with, under another mask id, the symbol
\* has a pending write: the ASSERT on potentially_unmasked_ops never fails while a
\* properly nested layer is analysed
C22_CheckedSymbolHasPendingWrite ==
    assertFailed # "potentially_unmasked_ops.empty() == false"

\* op o lies in the condition block of the loop op l
InCondition(l, o) == Op(l).jump[1] <= o /\ o < Op(l).jump[2]

\* op o lies in the body block or the step block of the loop op l
InBodyOrStep(l, o) == Op(l).jump[2] <= o /\ o < Op(l).jump[4]

\* op o lies in a block of a control op that itself lies in the blocks of loop l
NestedUnder(l, o) ==
    \E k \in OpIndices : /\ l < k /\ k < o /\ o < farthest_jump(Op(k))

\* the ops of the condition block of loop l walked so far are read at the depth and
\* mask of the loop op and written one level deeper under another mask, the one the
\* ops of the body and step blocks are walked under
ConditionReadOuterWrittenInner(l) ==
    \A n \in DOMAIN trace :
        (InCondition(l, trace[n].op) /\ ~NestedUnder(l, trace[n].op)) =>
            /\ trace[n].blockDepth = trace[TracePos(l)].blockDepth
            /\ trace[n].maskId = trace[TracePos(l)].maskId
            /\ trace[n].writeBlockDepth = trace[TracePos(l)].blockDepth + 1
            /\ trace[n].writeMaskId # trace[n].maskId
            /\ \A b \in DOMAIN trace :
                   (InBodyOrStep(l, trace[b].op) /\ ~NestedUnder(l, trace[b].op))
                       => /\ trace[b].maskId = trace[n].writeMaskId
                          /\ trace[b].blockDepth = trace[n].writeBlockDepth

\* the symbols read by the ops of the condition block of loop l
ReadInCondition(l) ==
    UNION { SeqToSet(symbolsReadByOp(Op(r))) : r \in { o \in OpIndices : InCondition(l, o) } }

\* C23: the ops of a loop's condition block are read at the loop op's depth and
\* mask and written at the body's depth and mask; once the loop has been walked
\* every op of its condition, body and step blocks that writes the loop's condition
\* symbol is flagged, and so is every op of its body and step blocks that writes a
\* symbol an op of the condition block reads
C23_LoopConditionWritesFlagged ==
    \A l \in LoopOps :
        Walked(l) =>
            /\ ConditionReadOuterWrittenInner(l)
            /\ (FullyWalked(l) /\ pc # "abort") =>
                   \A o \in OpIndices : \A s \in SeqToSet(symbolsWrittenByOp(Op(o))) :
                       (\/ InIteration(l, o) /\ s = Op(l).args[1].sym
                        \/ InBodyOrStep(l, o) /\ s \in ReadInCondition(l))
                           => requiresMasking(o) = TRUE

\* the symbols the n-th op walked depends on: the symbols it reads and the
\* condition symbols of the if and loop regions open when it is walked
FeedersOf(n) == SeqToSet(symbolsReadByOp(Traced(n))) \cup SeqToSet(trace[n].deps)

\* C24: in the final table, for every op walked, if a symbol the op reads or the
\* condition symbol of a region open around the op is varying, every symbol the op
\* writes is varying
C24_TableClosedUnderFeedForward ==
    Done => \A n \in DOMAIN trace :
                (\E r \in FeedersOf(n) : isSymbolUniform(r) = FALSE) =>
                    \A w \in SeqToSet(symbolsWrittenByOp(Traced(n))) :
                        isSymbolUniform(w) = FALSE

\* the analysis has finished a layer in which an op under an if on a varying
\* condition writes a local from uniform values only: the local is varying
C24_Witness ==
    /\ Done
    /\ \E n \in DOMAIN trace :
           /\ \A r \in SeqToSet(symbolsReadByOp(Traced(n))) : isSymbolUniform(r) = TRUE
           /\ \E d \in SeqToSet(trace[n].deps) : isSymbolUniform(d) = FALSE
           /\ \E w \in SeqToSet(symbolsWrittenByOp(Traced(n))) :
                  /\ symtype(w) = "Local"
                  /\ w \notin GetAttributeResults
                  /\ isSymbolUniform(w) = FALSE

\* op o lies in the init block of the loop op l, in no control op nested there
InInit(l, o) == l < o /\ o < Op(l).jump[1] /\ ~NestedUnder(l, o)

\* the ops of the init block of loop l walked so far were walked at the depth and
\* mask of the loop op, for reads and for writes, and with the two stacks as they
\* were when the loop op was walked: the loop's condition is on neither yet
InitWalkedAsLoopOp(l) ==
    \A n \in DOMAIN trace :
        InInit(l, trace[n].op) =>
            /\ trace[n].blockDepth = trace[TracePos(l)].blockDepth
            /\ trace[n].writeBlockDepth = trace[TracePos(l)].blockDepth
            /\ trace[n].maskId = trace[TracePos(l)].maskId
            /\ trace[n].writeMaskId = trace[TracePos(l)].maskId
            /\ trace[n].deps = trace[TracePos(l)].deps
            /\ trace[n].loops = trace[TracePos(l)].loops

\* the ops that write s
WritersOf(s) == { o \in OpIndices : s \in SeqToSet(symbolsWrittenByOp(Op(o))) }

\* s is a local that no getattribute writes and that is the condition of no loop
\* with a break, written by ops of init blocks only, each of which, where the walk
\* met it, reads and depends on symbols reported uniform only
WrittenInInitFromUniform(s) ==
    /\ symtype(s) = "Local"
    /\ s \notin GetAttributeResults
    /\ \A b \in BreakOps : Op(LoopOfBreak(b)).args[1].sym # s
    /\ WritersOf(s) # {}
    /\ \A o \in WritersOf(s) :
           /\ \E l \in LoopOps : InInit(l, o)
           /\ \A n \in DOMAIN trace :
                  (trace[n].op = o) => \A r \in FeedersOf(n) : isSymbolUniform(r) = TRUE

\* the symbols the n-th op walked is recorded as writing: the symbols it writes
\* and, for a break, the condition of the innermost loop around it
RecordedWrites(n) ==
    SeqToSet(symbolsWrittenByOp(Traced(n)))
        \cup (IF Traced(n).opname = "break" /\ trace[n].loops # << >>
              THEN { trace[n].loops[Len(trace[n].loops)] } ELSE {})

\* a check of s below depth d follows the n-th op walked: an op walked later reads s
\* at a depth below d, or a loop around the op has s for its condition and was
\* walked at a depth below d, or s is an output parameter and d > 0
CheckedBelow(n, s, d) ==
    \/ \E m \in DOMAIN trace :
           m > n /\ s \in SeqToSet(symbolsReadByOp(Traced(m))) /\ trace[m].blockDepth < d
    \/ \E k \in EnclosingLoops(trace[n].op) :
           Op(k).args[1].sym = s /\ trace[TracePos(k)].blockDepth < d
    \/ symtype(s) = "OutputParam" /\ d > 0

\* C25: the ops of a loop's init block are walked at the loop op's own depth and
\* mask, before the loop's condition is pushed on either stack; a symbol written
\* only in init blocks, from uniform inputs, is reported uniform whatever the loop's
\* condition is; and an op of an init block is flagged only if a symbol it writes is
\* checked at a depth below the loop's own
C25_InitBlockOutsideLoopCondition ==
    /\ \A l \in LoopOps : Walked(l) => InitWalkedAsLoopOp(l)
    /\ Done =>
           /\ \A s \in ArgSymbols : WrittenInInitFromUniform(s) => isSymbolUniform(s) = TRUE
           /\ \A l \in LoopOps : \A n \in DOMAIN trace :
                  (InInit(l, trace[n].op) /\ requiresMasking(trace[n].op) = TRUE) =>
                      \E s \in RecordedWrites(n) :
                          CheckedBelow(n, s, trace[TracePos(l)].blockDepth)

\* the analysis has finished a loop whose condition k is varying, whose init block
\* writes y from nothing varying and whose y is read later at the loop's depth: y is
\* uniform and the write is not flagged
C25_Witness ==
    /\ Done
    /\ \E l \in LoopOps : \E o \in OpIndices :
           /\ isSymbolUniform(Op(l).args[1].sym) = FALSE
           /\ InInit(l, o)
           /\ "y" \in SeqToSet(symbolsWrittenByOp(Op(o)))
           /\ WrittenInInitFromUniform("y")
           /\ isSymbolUniform("y") = TRUE
           /\ requiresMasking(o) = FALSE
           /\ \E m \in DOMAIN trace :
                  /\ m > TracePos(o)
                  /\ "y" \in SeqToSet(symbolsReadByOp(Traced(m)))
                  /\ trace[m].blockDepth = trace[TracePos(l)].blockDepth

\* the walk is at a break op
AtBreak ==
    /\ pc = "walk"
    /\ frames # << >>
    /\ Top.stage = "op"
    /\ Top.opIndex < Top.endop
    /\ Op(Top.opIndex).opname = "break"

\* the condition symbols of the regions opened inside the innermost loop around
\* the break b: the ifs between that loop and the break whose blocks hold the break
ConditionsInsideLoop(b) ==
    { Op(i).args[1].sym : i \in { j \in IfOps : LoopOfBreak(b) < j /\ InBodies(j, b) } }

\* C26: the step that walks a break adds to the feed-forward graph exactly the
\* edges from the condition symbols of the regions opened inside the innermost
\* loop around the break to that loop's condition symbol: none from a condition
\* that encloses the loop, none at all for a break directly in the loop
C26_BreakEdgesFromInsideLoopOnly ==
    [][(AtBreak /\ pc' = "walk") =>
           /\ symbolFeedForwardMap' \ symbolFeedForwardMap
                  \subseteq { << d, Op(LoopOfBreak(Top.opIndex)).args[1].sym >> :
                                d \in ConditionsInsideLoop(Top.opIndex) }
           /\ { << d, Op(LoopOfBreak(Top.opIndex)).args[1].sym >> :
                  d \in ConditionsInsideLoop(Top.opIndex) } \subseteq symbolFeedForwardMap']_vars

\* C27: the feed-forward graph the walk builds never holds an edge from a symbol
\* to itself
C27_NoSelfEdge == \A e \in symbolFeedForwardMap : e[1] # e[2]

\* the analysis has ended: it returned, or an ASSERT ended the program
Terminated == pc \in { "done", "abort" }

\* the walk has returned from its last top-level range
WalkReturned == pc \in { "outputs", "seeds", "markOutputs", "markGetAttribute", "done" }

\* no op is walked a second time
NoOpWalkedTwice ==
    \A m, n \in DOMAIN trace : (trace[m].op = trace[n].op) => m = n

\* C28: the analysis of a properly nested layer terminates: the walk meets no op
\* twice and, when it returns, has met every op of the layer; the passes that
\* follow it, the propagation along the feed-forward edges among them, end, also
\* when break edges close a cycle
C28_AnalysisTerminates ==
    /\ [](NoOpWalkedTwice /\ (WalkReturned => \A o \in OpIndices : Walked(o)))
    /\ <>Terminated

\* the analysis has ended on a layer whose feed-forward graph has a cycle through
\* a break edge, with the symbols on the cycle marked varying
C28_Witness ==
    /\ Done
    /\ << "x", "c" >> \in symbolFeedForwardMap
    /\ << "c", "x" >> \in symbolFeedForwardMap
    /\ isSymbolUniform("x") = FALSE
    /\ isSymbolUniform("c") = FALSE

RECURSIVE IsSubsequence(_, _)
\* the entries of sub occur in seq, in the order of sub
IsSubsequence(sub, seq) ==
    IF sub = << >> THEN TRUE
    ELSE IF seq = << >> THEN FALSE
    ELSE IF Head(sub) = Head(seq) THEN IsSubsequence(Tail(sub), Tail(seq))
    ELSE IsSubsequence(sub, Tail(seq))

\* the walk is about to run the code that follows the last block of an if or of a
\* loop, where the stacks are popped
AtPop ==
    /\ pc = "walk"
    /\ Len(frames) > 1
    /\ Top.stage = "op"
    /\ Top.opIndex >= Top.endop
    /\ Caller.stage \in { "else", "cond" }

\* C29: during the walk loopControlFlowSymbolStack is a subsequence of
\* symbolsCurrentBlockDependsOn; at a break its top occurs in
\* symbolsCurrentBlockDependsOn; both are empty when the walk has returned; none of
\* the ASSERTs on the stacks fails; and the pops at the end of an if or a loop
\* remove the symbol this op pushed, leaving both stacks as they were when the op
\* was walked
C29_StacksNestWithTheBlocks ==
    /\ [](/\ IsSubsequence(loopControlFlowSymbolStack, symbolsCurrentBlockDependsOn)
          /\ AtBreak =>
                 /\ loopControlFlowSymbolStack # << >>
                 /\ loopControlFlowSymbolStack[Len(loopControlFlowSymbolStack)]
                        \in SeqToSet(symbolsCurrentBlockDependsOn)
          /\ (WalkReturned \/ frames = << >>) =>
                 /\ symbolsCurrentBlockDependsOn = << >>
                 /\ loopControlFlowSymbolStack = << >>
          /\ assertFailed \notin
                 { "symbolsCurrentBlockDependsOn.back() == symbolsReadByOp[0]",
                   "loopControlFlowSymbolStack.back() == symbolsReadByOp[0]",
                   "false == loopControlFlowSymbolStack.empty()",
                   "conditionIter != symbolsCurrentBlockDependsOn.end()" })
    /\ [][(AtPop /\ pc' = "walk") =>
              /\ symbolsCurrentBlockDependsOn[Len(symbolsCurrentBlockDependsOn)]
                     = Op(Caller.opIndex).args[1].sym
              /\ symbolsCurrentBlockDependsOn' = trace[TracePos(Caller.opIndex)].deps
              /\ loopControlFlowSymbolStack' = trace[TracePos(Caller.opIndex)].loops]_vars

\* the walk is at a break under an if in a loop: the condition of the loop is on
\* both stacks, the one of the if on symbolsCurrentBlockDependsOn alone
C29_Witness ==
    /\ AtBreak
    /\ Len(loopControlFlowSymbolStack) = 1
    /\ Len(symbolsCurrentBlockDependsOn) = 2
    /\ Op(Caller.opIndex).opname = "if"

\* the ways to name the globals of a layer: as they are, or with P and Ci exchanged
GlobalNamings ==
    { [ s \in Symbols |-> s ],
      [ s \in Symbols |-> IF s = "P" THEN "Ci" ELSE IF s = "Ci" THEN "P" ELSE s ] }

RECURSIVE Renamed(_, _)
\* the op stream code with every symbol s replaced by naming[s]
Renamed(code, naming) ==
    IF code = << >> THEN << >>
    ELSE << [ Head(code) EXCEPT
                !.args = [ a \in DOMAIN Head(code).args |->
                             [ Head(code).args[a] EXCEPT !.sym = naming[@] ] ] ] >>
         \o Renamed(Tail(code), naming)

\* the analysis is past the pass over the output parameters
MaskingIsFinal == pc \in { "seeds", "markOutputs", "markGetAttribute", "done" }

\* C30: the requires_masking table does not depend on which symbols are varying:
\* the table the analysis ends with is the one it computes for the layer with the
\* names of its globals P (varying) and Ci (uniform) exchanged, and a run ends in
\* the ASSERT on the pending writes exactly if the run on the renamed layer does;
\* the passes that classify the symbols leave the table alone
C30_MaskingIndependentOfVarying ==
    /\ []((MaskingIsFinal \/ pc = "abort") =>
              \A naming \in GlobalNamings :
                  \A other \in { MaskingOf(Renamed(ops, naming)) } :
                      IF pc = "abort" THEN ~other.ok
                      ELSE /\ other.ok
                           /\ other.masking = m_requires_masking_by_layer_and_op_index)
    /\ [][MaskingIsFinal => m_requires_masking_by_layer_and_op_index'
                              = m_requires_masking_by_layer_and_op_index]_vars

\* the analysis has finished `if Ci { x = .. }; printf(x)`: the condition Ci is
\* uniform, and the write of x under the if is flagged
C30_Witness ==
    /\ Done
    /\ ops = IfStmt("Ci", << Store("x") >>, << >>) \o << Use("x") >>
    /\ isSymbolUniform("Ci") = TRUE
    /\ requiresMasking(1) = TRUE

====
